---- MODULE Spec2Model ----
(***************************************************************************)
(* PDF-RAG: a model of the vector index (QdrantService), the ingestion     *)
(* pipeline (DocumentProcessor, pdf_processing_task, the upload and the    *)
(* processing routes), the chat routes, ChatService, the batch embedding   *)
(* operations, the process tracker and the text chunker.                   *)
(*                                                                         *)
(* The specifications share the variables:                                 *)
(*   SpecIndex   the QdrantService operations, called by several worker    *)
(*               processes, with every await as an interleaving point;     *)
(*   SpecIngest  the API server: the upload, processing and delete routes, *)
(*               the batch loops and the runs of process_document;         *)
(*   SpecCelery  the runs of pdf_processing_task in the worker processes,  *)
(*               delivered at least once by the task executor;             *)
(*   SpecChat    the chats served by send_message_stream;                  *)
(*   SpecEmbed   one batch embedding call on a list of texts;              *)
(*   SpecAnswer  one question answered by send_message or streamed by      *)
(*               send_message_stream;                                      *)
(*   SpecHistory the conversation history put in the prompt of a question; *)
(*   SpecSessions the chats created by create_chat and                     *)
(*               get_or_create_document_chat;                              *)
(*   SpecTracker the operations of ProcessTracker on its map of process    *)
(*               records;                                                  *)
(*   SpecChunker one call of create_text_chunks or _get_overlap_text on a  *)
(*               text.                                                     *)
(* A specification keeps the variables it does not use at their initial    *)
(* value.                                                                  *)
(***************************************************************************)
EXTENDS Integers, Sequences, FiniteSets, TLC

VARIABLES
    collections,  \* Qdrant: collection name -> set of points (id, payload)
    hashSeed,     \* the str-hash seed of each worker process (PYTHONHASHSEED)
    calls,        \* SpecIndex: the QdrantService call each process is in
    stores,       \* SpecIndex: number of store_document_chunks calls started
    docs,         \* the documents table: status and chunk_count
    runs,         \* the ingestion runs, scheduled or running
    tmpFile,      \* SpecCelery: whether the task's file_path still exists
    batch,        \* SpecIngest: the process_pending / reprocess_failed loop
    resp,         \* the response of a route, in the step after it
    ended,        \* the run that ended, in the step after it
    deliveries,   \* SpecCelery: deliveries of tasks so far
    messages,     \* SpecChat: the roles of the messages persisted in each chat
    stream,       \* SpecChat: the streaming response in flight
    embed,        \* SpecEmbed: the batch embedding call in progress
    rag,          \* SpecAnswer: the question being answered
    hist,         \* SpecHistory: the history block being built for a question
    chatdb,       \* SpecSessions: the chats table and the chats returned so far
    tracker,      \* SpecTracker: the ProcessTracker map and its clock
    chunker       \* SpecChunker: one call of the text chunker

idxVars == <<calls, stores>>

ingVars == <<docs, runs, tmpFile, batch, resp, ended, deliveries>>

chatVars == <<messages, stream>>

soloVars == <<embed, rag, hist, chatdb, tracker, chunker>>

vars == <<collections, hashSeed, calls, stores, docs, runs, tmpFile, batch, resp, ended,
          deliveries, messages, stream, embed, rag, hist,
          chatdb, tracker>>

----------------------------------------------------------------------------
(* Bounds of the model                                                     *)

\* worker processes (each with its own interpreter, hence its own hash seed)
NumProcs == 2
\* longest chunk list handed to store_document_chunks
MaxChunks == 2
\* store_document_chunks calls started in one behaviour of SpecIndex
MaxStores == 2

Procs == 1..NumProcs

----------------------------------------------------------------------------
(* Document ids and collection names                                       *)

\* A document id is a str: a sequence of characters.  "a-b" has the shape of
\* the uuid4 text upload_pdf generates (groups joined by "-").
DocIdSeq == << <<"a", "b">>, <<"a", "-", "b">>, <<"c">> >>

DocIds == {DocIdSeq[k] : k \in 1..Len(DocIdSeq)}

\* c.isalnum() on the characters the model uses
AlnumChars == {"a", "b", "c", "d", "o"}

\* "".join(c for c in document_id if c.isalnum() or c == "_")
Sanitize(document_id) ==
    SelectSeq(document_id, LAMBDA c : c \in AlnumChars \/ c = "_")

\* self.base_collection_name = "doc"
base_collection_name == <<"d", "o", "c">>

\* f"{self.base_collection_name}_{sanitized_doc_id}"
get_document_collection_name(document_id) ==
    base_collection_name \o <<"_">> \o Sanitize(document_id)

CollectionNames == {get_document_collection_name(d) : d \in DocIds}

----------------------------------------------------------------------------
(* Point ids                                                               *)

\* the seeds a process can draw; equal seeds happen when PYTHONHASHSEED is set
Seeds == {0, 1}

\* position of a document id in DocIdSeq: the content of the hashed string
StrCode(document_id) == CHOOSE k \in 1..Len(DocIdSeq) : DocIdSeq[k] = document_id

\* hash(f"{document_id}_{i}") in a process whose seed is `seed`: str hashes are
\* keyed by the per-process seed.  The key (document_id, i) and the seed are
\* mixed injectively; the values stay far below 2**63 - 1, so the reduction
\* modulo 2**63 - 1 of the source leaves them as they are.
PyHash(seed, document_id, i) ==
    ((StrCode(document_id) * (MaxChunks + 2) + i) * 2 + seed)

\* id=hash(f"{document_id}_{i}") % (2**63 - 1), computed by process p
PointId(p, document_id, i) == PyHash(hashSeed[p], document_id, i)

\* the point store_document_chunks builds for chunk i (payload: document_id,
\* chunk_index; text, size and created_at carry no information here)
MakePoint(p, document_id, i) ==
    [id |-> PointId(p, document_id, i), document_id |-> document_id, chunk_index |-> i]

\* qdrant upsert: a point replaces the stored point of the same id
Upsert(stored, points) ==
    {q \in stored : \A n \in points : n.id # q.id} \cup points

\* embeddings handed to store_document_chunks: TRUE is a vector, FALSE is None
EmbeddingLists == UNION {[1..n -> BOOLEAN] : n \in 0..MaxChunks}

\* the points of one store_document_chunks call: enumerate(zip(chunks,
\* embeddings)) skipping None, so chunk_index is the 0-based position
PointsOf(p, document_id, embeddings) ==
    {MakePoint(p, document_id, i - 1) : i \in {j \in 1..Len(embeddings) : embeddings[j]}}

----------------------------------------------------------------------------
(* SpecIndex: the QdrantService operations                                 *)
(*                                                                         *)
(* calls[p] is the call process p is in.  pc is the await the call is at:  *)
(*   "get_collections"    ensure_document_collection, line 43              *)
(*   "create_collection"  ensure_document_collection, line 50              *)
(*   "upsert"             store_document_chunks, line 103                  *)
(*   "search"             search_similar_chunks, line 127                  *)
(*   "done"               the call has returned or raised                  *)

\* limit: int = 5
SearchLimit == 5

IdleCall ==
    [op |-> "none", pc |-> "idle", doc |-> <<>>, emb |-> <<>>,
     outcome |-> "none", error |-> "none", result |-> {}, count |-> 0,
     exists |-> FALSE]

\* the call ends by raising `error`
Raised(c, error) == [c EXCEPT !.pc = "done", !.outcome = "raised", !.error = error]

\* the call ends by returning the points `result` (search) or `count` (store)
Returned(c, result, count) ==
    [c EXCEPT !.pc = "done", !.outcome = "returned", !.result = result, !.count = count]

\* a caller invokes search_similar_chunks(document_id, v): the call awaits
\* ensure_document_collection first (line 124)
StartSearch(p, document_id) ==
    /\ calls[p].op = "none"
    /\ calls' = [calls EXCEPT ![p] =
            [IdleCall EXCEPT !.op = "search", !.pc = "get_collections", !.doc = document_id]]
    /\ UNCHANGED <<collections, hashSeed, stores>>
    /\ UNCHANGED <<ingVars, chatVars, soloVars>>

\* a caller invokes store_document_chunks(user, document_id, chunks, embeddings)
StartStore(p, document_id, embeddings) ==
    /\ calls[p].op = "none"
    /\ stores < MaxStores
    /\ stores' = stores + 1
    /\ calls' = [calls EXCEPT ![p] =
            [IdleCall EXCEPT !.op = "store", !.pc = "get_collections",
                             !.doc = document_id, !.emb = embeddings]]
    /\ UNCHANGED <<collections, hashSeed>>
    /\ UNCHANGED <<ingVars, chatVars, soloVars>>

\* where a call goes once ensure_document_collection has returned the name:
\* search awaits client.search; store builds its points and raises ValueError
\* when there is none (lines 80-100), else awaits client.upsert
AfterEnsure(p, c) ==
    IF c.op = "search" THEN [c EXCEPT !.pc = "search"]
    ELSE IF PointsOf(p, c.doc, c.emb) = {} THEN Raised(c, "no_valid_embeddings")
    ELSE [c EXCEPT !.pc = "upsert"]

\* ensure_document_collection, lines 43-48: list the collections; the call
\* goes on to create the collection when its name is not in the list
EnsureCheck(p) ==
    LET c == calls[p]
        name == get_document_collection_name(c.doc)
    IN  /\ c.pc = "get_collections"
        /\ \/ \* get_collections answers
              calls' = [calls EXCEPT ![p] =
                  IF name \in DOMAIN collections THEN AfterEnsure(p, c)
                  ELSE [c EXCEPT !.pc = "create_collection"]]
           \/ \* get_collections fails: logged and re-raised (lines 65-67)
              calls' = [calls EXCEPT ![p] = Raised(c, "index_unavailable")]
        /\ UNCHANGED <<collections, hashSeed, stores>>
        /\ UNCHANGED <<ingVars, chatVars, soloVars>>
    /\ UNCHANGED <<ingVars, chatVars, soloVars>>

\* ensure_document_collection, lines 50-64: create the collection.  Qdrant
\* refuses to create a collection whose name exists (409); any failure is
\* logged and re-raised (lines 65-67)
EnsureCreate(p) ==
    LET c == calls[p]
        name == get_document_collection_name(c.doc)
    IN  /\ c.pc = "create_collection"
        /\ \/ /\ name \notin DOMAIN collections
              /\ collections' = [n \in DOMAIN collections \cup {name} |->
                                    IF n = name THEN {} ELSE collections[n]]
              /\ calls' = [calls EXCEPT ![p] = AfterEnsure(p, c)]
           \/ /\ name \in DOMAIN collections
              /\ calls' = [calls EXCEPT ![p] = Raised(c, "already_exists")]
              /\ UNCHANGED collections
           \/ /\ calls' = [calls EXCEPT ![p] = Raised(c, "index_unavailable")]
              /\ UNCHANGED collections
        /\ UNCHANGED <<hashSeed, stores>>
        /\ UNCHANGED <<ingVars, chatVars, soloVars>>

\* store_document_chunks, lines 103-115: upsert the points and return their
\* number; a failure is logged and re-raised
StoreUpsert(p) ==
    LET c == calls[p]
        name == get_document_collection_name(c.doc)
        points == PointsOf(p, c.doc, c.emb)
    IN  /\ c.pc = "upsert"
        /\ \/ /\ name \in DOMAIN collections
              /\ collections' = [collections EXCEPT ![name] = Upsert(@, points)]
              /\ calls' = [calls EXCEPT ![p] = Returned(c, {}, Cardinality(points))]
           \/ /\ calls' = [calls EXCEPT ![p] = Raised(c, "index_unavailable")]
              /\ UNCHANGED collections
        /\ UNCHANGED <<hashSeed, stores>>
        /\ UNCHANGED <<ingVars, chatVars, soloVars>>

\* the answers client.search can give: the `limit` best points of the
\* collection (scores are not modelled: any `limit` of them when there are more)
SearchAnswers(stored, limit) ==
    IF Cardinality(stored) <= limit THEN {stored}
    ELSE {s \in SUBSET stored : Cardinality(s) = limit}

\* search_similar_chunks, lines 126-155: search the collection and return one
\* EmbeddingResult per point; any failure is logged and [] is returned
SearchBody(p) ==
    LET c == calls[p]
        name == get_document_collection_name(c.doc)
    IN  /\ c.pc = "search"
        /\ \/ /\ name \in DOMAIN collections
              /\ \E answer \in SearchAnswers(collections[name], SearchLimit) :
                    calls' = [calls EXCEPT ![p] = Returned(c, answer, Cardinality(answer))]
           \/ calls' = [calls EXCEPT ![p] = Returned(c, {}, 0)]
        /\ UNCHANGED <<collections, hashSeed, stores>>
        /\ UNCHANGED <<ingVars, chatVars, soloVars>>
    /\ UNCHANGED <<ingVars, chatVars, soloVars>>

\* the caller has taken the result: the process is free for its next call
\* collection_exists (lines 157-166): whether the listing holds the
\* document's collection name; False when the listing fails
collection_exists(p, document_id) ==
    /\ calls[p].op = "none"
    /\ \E listed \in {get_document_collection_name(document_id) \in DOMAIN collections,
                       FALSE} :
          calls' = [calls EXCEPT ![p] =
              [IdleCall EXCEPT !.op = "exists", !.pc = "done", !.doc = document_id,
                               !.outcome = "returned", !.exists = listed]]
    /\ UNCHANGED <<collections, hashSeed, stores>>
    /\ UNCHANGED <<ingVars, chatVars, soloVars>>

Retire(p) ==
    /\ calls[p].pc = "done"
    /\ calls' = [calls EXCEPT ![p] = IdleCall]
    /\ UNCHANGED <<collections, hashSeed, stores>>
    /\ UNCHANGED <<ingVars, chatVars, soloVars>>

\* the state of the vector index and of its callers after construction
InitCalls ==
    /\ collections = << >>
    /\ hashSeed \in [Procs -> Seeds]
    /\ calls = [p \in Procs |-> IdleCall]
    /\ stores = 0

----------------------------------------------------------------------------
(* SpecIngest and SpecCelery: ingestion runs                               *)
(*                                                                         *)
(* A run is one execution of DocumentProcessor.process_document (kind      *)
(* "processor", in the API process) or of pdf_processing_task (kind        *)
(* "celery", in a worker process).  Between two awaits a run is atomic;    *)
(* pc is the await the run is at:                                          *)
(*   "scheduled"   added to BackgroundTasks or delivered, not begun        *)
(*   "preparing"   processing is committed; download, extract, chunk, embed*)
(*   "storing"     awaiting store_document_chunks                          *)
(*   "completing"  store_document_chunks has written, the run resumes      *)
(* A run that returns or raises leaves its slot; `ended` holds what its    *)
(* caller got, and `resp` what a route answered, until the next step.      *)

\* runs that exist at one time, scheduled or running
MaxRuns == 2
\* deliveries of tasks by the at-least-once task executor in one behaviour
MaxDeliveries == 2

RunIds == 1..MaxRuns

\* the documents that are ingested: ids whose collection names differ
IngestDocs == {DocIdSeq[2], DocIdSeq[3]}

\* the process of the API server, which holds the module-level
\* document_processor the routes use
ApiProc == 1

\* len(create_text_chunks(text)) for the text of a document: fixed by the text
ChunkCount(document_id) == IF document_id = DocIdSeq[2] THEN MaxChunks ELSE 1

\* generate_embeddings(chunk_texts) of services/embedding_service.py when it
\* returns: one vector per text (any failure is raised, never a None entry)
generate_embeddings(n) == [i \in 1..n |-> TRUE]

\* the points of a document's collection ({} when there is no collection)
PointsIn(document_id) ==
    LET name == get_document_collection_name(document_id)
    IN  IF name \in DOMAIN collections THEN collections[name] ELSE {}

\* no Document record: the id was never uploaded ("absent") or its record
\* was deleted ("deleted"); an id is a uuid4 and is not given out twice
NoDocument == [status |-> "absent", chunk_count |-> 0]

Deleted == [status |-> "deleted", chunk_count |-> 0]

\* db.query(DBDocument).filter(document_id == ...).first() finds a record
Exists(table, document_id) == table[document_id].status \notin {"absent", "deleted"}

IdleRun ==
    [kind |-> "none", doc |-> <<>>, proc |-> 0, pc |-> "idle", via |-> "none",
     rerun |-> FALSE, begun_count |-> 0, begun_points |-> {}, stored_count |-> 0]

NewRun(kind, document_id, p, via) ==
    [IdleRun EXCEPT !.kind = kind, !.doc = document_id, !.proc = p,
                    !.pc = "scheduled", !.via = via]

\* no run has ended in the last step
NoRun ==
    [kind |-> "none", doc |-> <<>>, outcome |-> "none", step |-> "none",
     error |-> "none", write |-> "none", rerun |-> FALSE, begun_count |-> 0,
     begun_points |-> {}]

\* no route has answered in the last step
NoResponse == [route |-> "none", doc |-> <<>>, code |-> 0]

IdleBatch == [kind |-> "none", pc |-> "idle", queue |-> <<>>]

FreeRuns == {r \in RunIds : runs[r].kind = "none"}

\* the slot a new run takes
FreeRun == CHOOSE r \in FreeRuns : \A q \in FreeRuns : r <= q

\* runs of a document that have begun and not ended
ActiveRuns(document_id) ==
    {r \in RunIds : runs[r].doc = document_id
                    /\ runs[r].pc \in {"preparing", "storing", "completing"}}

\* what the caller of a run gets when the run ends: how it ended (outcome),
\* the step that failed, the error reported, and how the write of the failed
\* status went
EndedRun(run, outcome, step, error, write) ==
    [kind |-> run.kind, doc |-> run.doc, outcome |-> outcome, step |-> step,
     error |-> error, write |-> write, rerun |-> run.rerun, begun_count |-> run.begun_count,
     begun_points |-> run.begun_points]

\* the run in slot r ends: its slot is free; a run awaited by the batch loop
\* returns to the loop, which appends the result and sleeps
\* (document_processor.py lines 143-146, 172-175)
EndRun(r, run, outcome, step, error, write, batchNow) ==
    /\ runs' = [runs EXCEPT ![r] = IdleRun]
    /\ ended' = EndedRun(run, outcome, step, error, write)
    /\ batch' = IF run.via = "batch" THEN [batchNow EXCEPT !.pc = "sleeping"] ELSE batchNow

\* an error report that lets a failure of the status write replace the error
ReportedErrorMasked(original, secondary) ==
    IF secondary # "none" THEN secondary ELSE original

\* the error a failed run reports: the handler swallows a failure of its own
\* status write ("except: pass") and re-raises the error it caught
ReportedError(original, secondary) == original

\* how a failed run ends for its caller: pdf_processing_task re-raises
\* (celery_app.py line 189); DocumentProcessor.process_document catches the
\* re-raised error and returns {"success": False, "error": str(e)}
\* (document_processor.py lines 120-126)
FailureOutcome(kind) == IF kind = "celery" THEN "raised" ELSE "returned_failure"

\* a handler that gives up without writing the status
WriteFailedSkipped(table, document_id) == table

\* document.processing_status = "failed"; db.commit()
WriteFailed(table, document_id) == [table EXCEPT ![document_id].status = "failed"]

\* the except block of a run (document_processor.py lines 102-115,
\* celery_app.py lines 160-173) and what follows it: the status is set to
\* failed unless the document is gone or the write itself fails; then the
\* error is re-raised; pdf_processing_task also removes the file
\* (celery_app.py lines 181-183).  `table` is the documents table as the
\* failed step left it.
HandleFailure(r, run, e, table, batchNow) ==
    LET d == run.doc
    IN  /\ \/ /\ Exists(table, d)
              /\ docs' = WriteFailed(table, d)
              /\ EndRun(r, run, FailureOutcome(run.kind), e, ReportedError(e, "none"),
                        "ok", batchNow)
           \/ /\ Exists(table, d)
              /\ docs' = table
              /\ EndRun(r, run, FailureOutcome(run.kind), e,
                        ReportedError(e, "status_write"), "failed", batchNow)
           \/ /\ ~Exists(table, d)
              /\ docs' = table
              /\ EndRun(r, run, FailureOutcome(run.kind), e, ReportedError(e, "none"),
                        "none", batchNow)
        /\ tmpFile' = IF run.kind = "celery" THEN [tmpFile EXCEPT ![d] = FALSE] ELSE tmpFile

\* the errors of the steps between the commit of processing and the call of
\* store_document_chunks: processor: download, extract (or no text), chunk
\* (or no chunks), embed (or a count mismatch); celery: open(file_path) when
\* the file is gone, else extract, chunk, embed
StepErrors(kind, document_id) ==
    IF kind = "processor" THEN {"download", "extract", "chunk", "embed"}
    ELSE IF tmpFile[document_id] THEN {"extract", "chunk", "embed"}
    ELSE {"read_file"}

\* document.processing_status = "processing"; db.commit(): whatever the status
\* was (document_processor.py lines 42-45, celery_app.py lines 70-73)
SetProcessing(table, document_id) == [table EXCEPT ![document_id].status = "processing"]

\* a run begins: the lookup of the document and the commit of processing
\* (document_processor.py lines 30-45, celery_app.py lines 51-73).  A run
\* that begins on a completed document is a rerun: it keeps the chunk_count
\* and the points the earlier run left.
BeginRun(r, run, batchNow) ==
    LET d == run.doc
        begun == IF docs[d].status = "completed"
                 THEN [run EXCEPT !.rerun = TRUE, !.begun_count = docs[d].chunk_count,
                                  !.begun_points = PointsIn(d)]
                 ELSE run
    IN  \/ /\ ~Exists(docs, d)
           /\ HandleFailure(r, begun, "not_found", docs, batchNow)
        \/ /\ Exists(docs, d)
           /\ HandleFailure(r, begun, "begin_commit", docs, batchNow)
        \/ /\ Exists(docs, d)
           /\ docs' = SetProcessing(docs, d)
           /\ runs' = [runs EXCEPT ![r] = [begun EXCEPT !.pc = "preparing"]]
           /\ batch' = batchNow
           /\ ended' = NoRun
           /\ UNCHANGED tmpFile

\* a scheduled background task or a delivered Celery task begins
RunBegin(r) ==
    /\ runs[r].pc = "scheduled"
    /\ BeginRun(r, runs[r], batch)
    /\ resp' = NoResponse
    /\ UNCHANGED <<collections, hashSeed, deliveries>>
    /\ UNCHANGED <<idxVars, chatVars, soloVars>>

\* the steps that touch neither the documents table nor the index: download
\* (or open the file), extract, chunk, generate_embeddings; the run then
\* calls store_document_chunks, or a step fails
\* (document_processor.py lines 47-75, celery_app.py lines 75-117)
RunPrepare(r) ==
    LET run == runs[r]
    IN  /\ run.pc = "preparing"
        /\ \/ /\ run.kind = "celery" => tmpFile[run.doc]
              /\ runs' = [runs EXCEPT ![r].pc = "storing"]
              /\ ended' = NoRun
              /\ UNCHANGED <<docs, tmpFile, batch>>
           \/ \E e \in StepErrors(run.kind, run.doc) :
                 HandleFailure(r, run, e, docs, batch)
        /\ resp' = NoResponse
        /\ UNCHANGED <<collections, hashSeed, deliveries>>
        /\ UNCHANGED <<idxVars, chatVars, soloVars>>

\* store_document_chunks: the collection is ensured and the points upserted,
\* or the call raises
RunStore(r) ==
    LET run == runs[r]
        d == run.doc
        name == get_document_collection_name(d)
        points == PointsOf(run.proc, d, generate_embeddings(ChunkCount(d)))
    IN  /\ run.pc = "storing"
        /\ \/ /\ collections' = [n \in DOMAIN collections \cup {name} |->
                                    IF n = name THEN Upsert(PointsIn(d), points)
                                    ELSE collections[n]]
              /\ runs' = [runs EXCEPT ![r] =
                    [run EXCEPT !.pc = "completing", !.stored_count = Cardinality(points)]]
              /\ ended' = NoRun
              /\ UNCHANGED <<docs, tmpFile, batch>>
           \/ /\ HandleFailure(r, run, "upsert", docs, batch)
              /\ UNCHANGED collections
        /\ resp' = NoResponse
        /\ UNCHANGED <<hashSeed, deliveries>>
        /\ UNCHANGED <<idxVars, chatVars, soloVars>>

\* a completion that leaves chunk_count at the column's default
CompletedWithoutCount(stored_count) == [status |-> "completed", chunk_count |-> 0]

\* document.processing_status = "completed"; document.chunk_count =
\* stored_count (document_processor.py lines 87-88, celery_app.py lines 131-132)
Completed(stored_count) == [status |-> "completed", chunk_count |-> stored_count]

\* the run marks the document completed with chunk_count = stored_count
\* (document_processor.py lines 86-100, celery_app.py lines 130-158) and the
\* Celery task removes its file; the commit fails when the record has been
\* deleted meanwhile, as any commit can
RunComplete(r) ==
    LET run == runs[r]
        d == run.doc
    IN  /\ run.pc = "completing"
        /\ \/ /\ Exists(docs, d)
              /\ docs' = [docs EXCEPT ![d] = Completed(run.stored_count)]
              /\ EndRun(r, run, "returned", "none", "none", "none", batch)
              /\ tmpFile' = IF run.kind = "celery" THEN [tmpFile EXCEPT ![d] = FALSE]
                            ELSE tmpFile
           \/ HandleFailure(r, run, "complete_commit", docs, batch)
        /\ resp' = NoResponse
        /\ UNCHANGED <<collections, hashSeed, deliveries>>
        /\ UNCHANGED <<idxVars, chatVars, soloVars>>

\* a route that starts processing whatever the status is
process_document_unguarded(document_id) ==
    /\ Exists(docs, document_id)
    /\ FreeRuns # {}
    /\ runs' = [runs EXCEPT ![FreeRun] = NewRun("processor", document_id, ApiProc, "task")]
    /\ resp' = [route |-> "process", doc |-> document_id, code |-> 200]
    /\ ended' = NoRun
    /\ UNCHANGED <<collections, hashSeed, docs, tmpFile, batch, deliveries>>
    /\ UNCHANGED <<idxVars, chatVars, soloVars>>

\* class DocumentUploadResponse (schemas.py lines 123-129): every field is
\* required
DocumentUploadResponse ==
    {"document_id", "filename", "s3_key", "processing_status", "message", "process_id"}

\* the keyword arguments upload_pdf gives to DocumentUploadResponse
\* (upload.py lines 87-93)
UploadResponseArguments ==
    {"document_id", "filename", "s3_key", "processing_status", "message"}

\* POST /upload (upload.py lines 21-101): a fresh document id; the file is
\* stored and the Document record is committed with status pending, or one
\* of these fails and nothing is kept (rollback, 500).  After the commit
\* process_document is added to the background tasks and the response model
\* is built: pydantic builds it only when every required field is given and
\* raises ValidationError else.  Then the except clause answers 500: its
\* rollback has nothing left to undo, and the background tasks of a request
\* that ends in an exception are not run.
upload_pdf(document_id) ==
    /\ docs[document_id].status = "absent"
    /\ \/ /\ docs' = [docs EXCEPT ![document_id] = [status |-> "pending", chunk_count |-> 0]]
          /\ IF DocumentUploadResponse \subseteq UploadResponseArguments
             THEN /\ FreeRuns # {}
                  /\ runs' = [runs EXCEPT ![FreeRun] =
                                  NewRun("processor", document_id, ApiProc, "task")]
                  /\ resp' = [route |-> "upload", doc |-> document_id, code |-> 200]
             ELSE /\ resp' = [route |-> "upload", doc |-> document_id, code |-> 500]
                  /\ UNCHANGED runs
       \/ /\ resp' = [route |-> "upload", doc |-> document_id, code |-> 500]
          /\ UNCHANGED <<docs, runs>>
    /\ ended' = NoRun
    /\ UNCHANGED <<collections, hashSeed, tmpFile, batch, deliveries>>
    /\ UNCHANGED <<idxVars, chatVars, soloVars>>

\* POST /process/{document_id} (processing.py lines 16-67): 404 for an unknown
\* document, 409 while it is processing or once it is completed, else
\* process_document is added to the background tasks
process_document(document_id) ==
    LET answer(code) == [route |-> "process", doc |-> document_id, code |-> code]
    IN  /\ \/ /\ ~Exists(docs, document_id)
              /\ resp' = answer(404)
              /\ UNCHANGED runs
           \/ /\ docs[document_id].status \in {"processing", "completed"}
              /\ resp' = answer(409)
              /\ UNCHANGED runs
           \/ /\ docs[document_id].status \in {"pending", "failed"}
              /\ FreeRuns # {}
              /\ runs' = [runs EXCEPT ![FreeRun] =
                              NewRun("processor", document_id, ApiProc, "task")]
              /\ resp' = answer(200)
        /\ ended' = NoRun
        /\ UNCHANGED <<collections, hashSeed, docs, tmpFile, batch, deliveries>>
        /\ UNCHANGED <<idxVars, chatVars, soloVars>>

\* DELETE /upload/documents/{document_id} (upload.py lines 127-171): the
\* record is deleted, whatever its status and whatever runs there are; the
\* stored file and the collection are left (lines 147-153)
delete_document(document_id) ==
    /\ \/ /\ ~Exists(docs, document_id)
          /\ resp' = [route |-> "delete", doc |-> document_id, code |-> 404]
          /\ UNCHANGED docs
       \/ /\ Exists(docs, document_id)
          /\ docs' = [docs EXCEPT ![document_id] = Deleted]
          /\ resp' = [route |-> "delete", doc |-> document_id, code |-> 200]
       \/ /\ Exists(docs, document_id)
          /\ resp' = [route |-> "delete", doc |-> document_id, code |-> 500]
          /\ UNCHANGED docs
    /\ ended' = NoRun
    /\ UNCHANGED <<collections, hashSeed, runs, tmpFile, batch, deliveries>>
    /\ UNCHANGED <<idxVars, chatVars, soloVars>>

\* the at-least-once task executor delivers the pdf_processing_task of a
\* document to a worker process (celery_app.py lines 43-44)
CeleryDeliver(document_id, p) ==
    /\ deliveries < MaxDeliveries
    /\ FreeRuns # {}
    /\ deliveries' = deliveries + 1
    /\ runs' = [runs EXCEPT ![FreeRun] = NewRun("celery", document_id, p, "task")]
    /\ resp' = NoResponse
    /\ ended' = NoRun
    /\ UNCHANGED <<collections, hashSeed, docs, tmpFile, batch>>
    /\ UNCHANGED <<idxVars, chatVars, soloVars>>

\* the documents of a status, in the order the query returns them
RECURSIVE DocsWithStatus(_, _)
DocsWithStatus(status, k) ==
    IF k > Len(DocIdSeq) THEN <<>>
    ELSE (IF DocIdSeq[k] \in IngestDocs /\ docs[DocIdSeq[k]].status = status
          THEN <<DocIdSeq[k]>> ELSE <<>>) \o DocsWithStatus(status, k + 1)

\* POST /process-pending adds process_pending_documents to the background
\* tasks (processing.py lines 69-84); reprocess_failed_documents has no
\* route, a caller awaits it (kind is the status the loop selects)
BatchRequest(kind) ==
    /\ batch.kind = "none"
    /\ batch' = [IdleBatch EXCEPT !.kind = kind, !.pc = "scheduled"]
    /\ resp' = NoResponse
    /\ ended' = NoRun
    /\ UNCHANGED <<collections, hashSeed, docs, runs, tmpFile, deliveries>>
    /\ UNCHANGED <<idxVars, chatVars, soloVars>>

\* the loop takes the next document of its list and awaits process_document
\* for it: the run begins at once, without a look at its current status
BatchProcess(queue) ==
    /\ FreeRuns # {}
    /\ BeginRun(FreeRun, NewRun("processor", Head(queue), ApiProc, "batch"),
                [batch EXCEPT !.pc = "running", !.queue = Tail(queue)])

\* process_pending_documents / reprocess_failed_documents start: the query
\* for the documents of the status, then the first process_document
\* (document_processor.py lines 128-143 and 157-172)
BatchSnapshot ==
    /\ batch.pc = "scheduled"
    /\ LET found == DocsWithStatus(IF batch.kind = "pending" THEN "pending" ELSE "failed", 1)
       IN  \/ /\ found = <<>>
              /\ batch' = IdleBatch
              /\ ended' = NoRun
              /\ UNCHANGED <<docs, runs, tmpFile>>
           \/ /\ found # <<>>
              /\ BatchProcess(found)
    /\ resp' = NoResponse
    /\ UNCHANGED <<collections, hashSeed, deliveries>>
    /\ UNCHANGED <<idxVars, chatVars, soloVars>>

\* after the sleep: the next document of the list, or the loop returns
BatchNext ==
    /\ batch.pc = "sleeping"
    /\ \/ /\ batch.queue = <<>>
          /\ batch' = IdleBatch
          /\ ended' = NoRun
          /\ UNCHANGED <<docs, runs, tmpFile>>
       \/ /\ batch.queue # <<>>
          /\ BatchProcess(batch.queue)
    /\ resp' = NoResponse
    /\ UNCHANGED <<collections, hashSeed, deliveries>>
    /\ UNCHANGED <<idxVars, chatVars, soloVars>>

\* no streaming response is in flight
IdleStream == [pc |-> "idle", doc |-> <<>>, log |-> <<>>]

\* process ids given to the tracker
MaxProcessIds == 2

ProcessIds == 1..MaxProcessIds

\* no ProcessInfo under a process id
NoProcess ==
    [status |-> "absent", progress_percent |-> 0, completed_at |-> <<>>, error |-> "none"]

\* ProcessTracker(): an empty map; the clock (hours) starts at 0
NoProcesses ==
    [processes |-> [id \in ProcessIds |-> NoProcess], now |-> 0,
     out |-> [op |-> "none", arg |-> 0, result |-> "none"]]

\* no call of the chunker is under way
IdleChunker ==
    [pc |-> "idle", text |-> <<>>, chunk_size |-> 0, chunk_overlap |-> 0,
     sentences |-> <<>>, next |-> 0, chunks |-> <<>>, current_chunk |-> <<>>,
     current_size |-> 0, chunk_index |-> 0, result |-> <<>>]

\* no chat exists and no request has been answered
NoChats ==
    [chats |-> {}, minted |-> 0,
     returned |-> [d \in IngestDocs |-> {}], routes |-> [d \in IngestDocs |-> {}],
     reply |-> [route |-> "none", code |-> 0, chat_id |-> 0]]

\* no history block is being built
IdleHistory ==
    [route |-> "none", pc |-> "idle", committed |-> 0, question |-> 0,
     chat_history |-> <<>>, history_for_ai |-> <<>>, block |-> <<>>]

\* no question is being answered
IdleAnswer ==
    [variant |-> "none", pc |-> "idle", found |-> 0, text |-> <<>>, raises |-> "none",
     llm_calls |-> 0, events |-> <<>>, full_response |-> <<>>, result |-> <<>>,
     persisted |-> <<>>]

\* no batch embedding call is in progress
IdleEmbed ==
    [impl |-> "none", pc |-> "idle", n |-> 0, fails |-> <<>>, callback |-> FALSE,
     cb_raises |-> {}, batch_idx |-> 0, embeddings |-> <<>>, outcome |-> "none",
     sleeps |-> {}]

\* the documents table, the runs, the task executor and the chats before any
\* request
InitRuns ==
    /\ docs = [d \in IngestDocs |-> NoDocument]
    /\ runs = [r \in RunIds |-> IdleRun]
    /\ tmpFile = [d \in IngestDocs |-> TRUE]
    /\ batch = IdleBatch
    /\ resp = NoResponse
    /\ ended = NoRun
    /\ deliveries = 0
    /\ messages = [d \in IngestDocs |-> <<>>]
    /\ stream = IdleStream
    /\ embed = IdleEmbed
    /\ rag = IdleAnswer
    /\ hist = IdleHistory
    /\ chatdb = NoChats
    /\ tracker = NoProcesses
    /\ chunker = IdleChunker

----------------------------------------------------------------------------
(* The specifications                                                      *)

\* SpecIndex: callers in NumProcs processes use one QdrantService each
InitIndex == InitCalls /\ InitRuns

NextIndex ==
    \/ \E p \in Procs, d \in DocIds : StartSearch(p, d)
    \/ \E p \in Procs, d \in DocIds : collection_exists(p, d)
    \/ \E p \in Procs, d \in DocIds, e \in EmbeddingLists : StartStore(p, d, e)
    \/ \E p \in Procs : EnsureCheck(p)
    \/ \E p \in Procs : EnsureCreate(p)
    \/ \E p \in Procs : StoreUpsert(p)
    \/ \E p \in Procs : SearchBody(p)
    \/ \E p \in Procs : Retire(p)

SpecIndex == InitIndex /\ [][NextIndex]_vars

\* GET /process/{process_id} (processing.py lines 146-178): the record the
\* tracker holds under the id, or 404 "Process not found"
get_process_status(process_id) ==
    /\ resp' = [route |-> "process_status", doc |-> <<>>,
                code |-> IF tracker.processes[process_id] = NoProcess THEN 404 ELSE 200]
    /\ ended' = NoRun
    /\ UNCHANGED <<collections, hashSeed, docs, runs, tmpFile, batch, deliveries>>
    /\ UNCHANGED <<idxVars, chatVars, soloVars>>

\* SpecIngest: the API server: uploads, the processing routes, the batch
\* loops and the runs of DocumentProcessor.process_document they start
\* (the API server is one process: its hash seed is fixed here)
InitIngest == InitCalls /\ InitRuns /\ hashSeed = [p \in Procs |-> 0]

NextIngest ==
    \/ \E d \in IngestDocs : upload_pdf(d)
    \/ \E d \in IngestDocs : process_document(d)
    \/ \E d \in IngestDocs : delete_document(d)
    \/ \E id \in ProcessIds : get_process_status(id)
    \/ \E kind \in {"pending", "failed"} : BatchRequest(kind)
    \/ BatchSnapshot
    \/ BatchNext
    \/ \E r \in RunIds : RunBegin(r)
    \/ \E r \in RunIds : RunPrepare(r)
    \/ \E r \in RunIds : RunStore(r)
    \/ \E r \in RunIds : RunComplete(r)

SpecIngest == InitIngest /\ [][NextIngest]_vars

\* SpecCelery: the task executor and its worker processes.  A document is
\* uploaded (record pending, file written) or unknown when the first task
\* is delivered.
InitCelery ==
    /\ InitCalls
    /\ docs \in [IngestDocs -> {NoDocument, [status |-> "pending", chunk_count |-> 0]}]
    /\ runs = [r \in RunIds |-> IdleRun]
    /\ tmpFile = [d \in IngestDocs |-> Exists(docs, d)]
    /\ batch = IdleBatch
    /\ resp = NoResponse
    /\ ended = NoRun
    /\ deliveries = 0
    /\ messages = [d \in IngestDocs |-> <<>>]
    /\ stream = IdleStream
    /\ embed = IdleEmbed
    /\ rag = IdleAnswer
    /\ hist = IdleHistory
    /\ chatdb = NoChats
    /\ tracker = NoProcesses
    /\ chunker = IdleChunker

NextCelery ==
    \/ \E d \in IngestDocs, p \in Procs : CeleryDeliver(d, p)
    \/ \E r \in RunIds : RunBegin(r)
    \/ \E r \in RunIds : RunPrepare(r)
    \/ \E r \in RunIds : RunStore(r)
    \/ \E r \in RunIds : RunComplete(r)

SpecCelery == InitCelery /\ [][NextCelery]_vars

----------------------------------------------------------------------------
(* SpecChat: the streaming chat endpoint                                   *)
(*                                                                         *)
(* Each document has one chat; messages[d] is the roles of the messages    *)
(* persisted in it, oldest first.  One streaming response is in flight at  *)
(* a time; stream.log is what generate_stream has done with the events of  *)
(* generate_response_stream, in order: "metadata" and "content" for an     *)
(* event sent on, "persist" for an assistant message committed.  pc:       *)
(*   "start"      the response is being iterated, no event yet             *)
(*   "streaming"  the metadata event is out, content events follow         *)
(*   "ended"      the response is over                                     *)

\* user turns accepted in one chat
MaxTurns == 2
\* content events of one response
MaxContent == 2

\* the number of messages of a role in a chat
CountRole(msgs, role) == Cardinality({i \in 1..Len(msgs) : msgs[i] = role})

\* an uploaded document whose run has completed: its record and its points
CompletedDoc(document_id) ==
    [status |-> "completed", chunk_count |-> ChunkCount(document_id)]

\* POST /{chat_id}/messages/stream (chat.py lines 323-481): 400 unless the
\* chat's document is completed; the user message is committed (or the
\* commit fails: rollback and 500); the StreamingResponse of generate_stream
\* is returned
send_message_stream(document_id) ==
    /\ stream.pc = "idle"
    /\ CountRole(messages[document_id], "user") < MaxTurns
    /\ \/ /\ docs[document_id].status # "completed"
          /\ resp' = [route |-> "stream", doc |-> document_id, code |-> 400]
          /\ UNCHANGED <<messages, stream>>
       \/ /\ docs[document_id].status = "completed"
          /\ resp' = [route |-> "stream", doc |-> document_id, code |-> 500]
          /\ UNCHANGED <<messages, stream>>
       \/ /\ docs[document_id].status = "completed"
          /\ messages' = [messages EXCEPT ![document_id] = Append(@, "user")]
          /\ stream' = [pc |-> "start", doc |-> document_id, log |-> <<>>]
          /\ resp' = [route |-> "stream", doc |-> document_id, code |-> 200]
    /\ UNCHANGED <<collections, hashSeed, docs, runs, tmpFile, batch, ended, deliveries>>
    /\ UNCHANGED <<idxVars, soloVars>>

\* generate_stream takes a done or an error event (chat.py lines 425-460):
\* the assistant message is added and committed, then the event is sent on;
\* when the commit fails the exception ends the response
PersistAssistant ==
    \/ /\ messages' = [messages EXCEPT ![stream.doc] = Append(@, "assistant")]
       /\ stream' = [stream EXCEPT !.pc = "ended", !.log = Append(@, "persist")]
    \/ /\ stream' = [stream EXCEPT !.pc = "ended"]
       /\ UNCHANGED messages

\* generate_response_stream up to its first event (test_streaming.py lines
\* 83-118): the search finds no chunk, or a step raises: one error event and
\* the generator returns; else the metadata event
StreamStart ==
    /\ stream.pc = "start"
    /\ \/ PersistAssistant
       \/ /\ PointsIn(stream.doc) # {}
          /\ stream' = [stream EXCEPT !.pc = "streaming", !.log = Append(@, "metadata")]
          /\ UNCHANGED messages
    /\ resp' = NoResponse
    /\ UNCHANGED <<collections, hashSeed, docs, runs, tmpFile, batch, ended, deliveries>>
    /\ UNCHANGED <<idxVars, soloVars>>

\* a content event: generate_stream appends it to full_response and sends it
\* on (test_streaming.py lines 124-131, chat.py lines 420-423)
StreamContent ==
    /\ stream.pc = "streaming"
    /\ CountRole(stream.log, "content") < MaxContent
    /\ stream' = [stream EXCEPT !.log = Append(@, "content")]
    /\ resp' = NoResponse
    /\ UNCHANGED messages
    /\ UNCHANGED <<collections, hashSeed, docs, runs, tmpFile, batch, ended, deliveries>>
    /\ UNCHANGED <<idxVars, soloVars>>

\* the done event after the last content event, or the error event when the
\* model raises (test_streaming.py lines 133-148)
StreamTerminal ==
    /\ stream.pc = "streaming"
    /\ PersistAssistant
    /\ resp' = NoResponse
    /\ UNCHANGED <<collections, hashSeed, docs, runs, tmpFile, batch, ended, deliveries>>
    /\ UNCHANGED <<idxVars, soloVars>>

\* the client goes away while the response is streamed: the server stops
\* iterating generate_stream, which never sees a done or an error event
ClientDisconnect ==
    /\ stream.pc \in {"start", "streaming"}
    /\ stream' = [stream EXCEPT !.pc = "ended"]
    /\ resp' = NoResponse
    /\ UNCHANGED messages
    /\ UNCHANGED <<collections, hashSeed, docs, runs, tmpFile, batch, ended, deliveries>>
    /\ UNCHANGED <<idxVars, soloVars>>

\* the response is over: the endpoint is free for the next message
StreamClose ==
    /\ stream.pc = "ended"
    /\ stream' = IdleStream
    /\ resp' = NoResponse
    /\ UNCHANGED messages
    /\ UNCHANGED <<collections, hashSeed, docs, runs, tmpFile, batch, ended, deliveries>>
    /\ UNCHANGED <<idxVars, soloVars>>

\* SpecChat: each document is uploaded and pending, or its run has completed
\* and left its points in the index
InitChat ==
    /\ hashSeed \in [Procs -> Seeds]
    /\ docs \in [IngestDocs ->
                    {[status |-> "pending", chunk_count |-> 0]}
                    \cup {CompletedDoc(d) : d \in IngestDocs}]
    /\ \A d \in IngestDocs :
          docs[d].status = "completed" => docs[d] = CompletedDoc(d)
    /\ collections =
          [n \in {get_document_collection_name(d) :
                    d \in {e \in IngestDocs : docs[e].status = "completed"}} |->
              UNION {PointsOf(ApiProc, d, generate_embeddings(ChunkCount(d))) :
                        d \in {e \in IngestDocs : get_document_collection_name(e) = n}}]
    /\ calls = [p \in Procs |-> IdleCall]
    /\ stores = 0
    /\ runs = [r \in RunIds |-> IdleRun]
    /\ tmpFile = [d \in IngestDocs |-> TRUE]
    /\ batch = IdleBatch
    /\ resp = NoResponse
    /\ ended = NoRun
    /\ deliveries = 0
    /\ messages = [d \in IngestDocs |-> <<>>]
    /\ stream = IdleStream
    /\ embed = IdleEmbed
    /\ rag = IdleAnswer
    /\ hist = IdleHistory
    /\ chatdb = NoChats
    /\ tracker = NoProcesses
    /\ chunker = IdleChunker

NextChat ==
    \/ \E d \in IngestDocs : send_message_stream(d)
    \/ StreamStart
    \/ StreamContent
    \/ StreamTerminal
    \/ ClientDisconnect
    \/ StreamClose

SpecChat == InitChat /\ [][NextChat]_vars

-----------------------------------------------------------------------------
\* SpecEmbed: the two batch embedding operations of the repository, each run
\* on a list of texts 1..n.  The vector of text i is written i, and None is
\* written 0.  The outcome of every embed_content call (fails) and of every
\* progress_callback call (cb_raises) is an input of the call.

MaxTexts == 4

\* self.batch_size (10 in utils/embeddings.py, 100 in embedding_service.py),
\* scaled down
batch_size == 2

None == 0

\* total_batches = (len(texts) + self.batch_size - 1) // self.batch_size
total_batches(n) == (n + batch_size - 1) \div batch_size

Min(a, b) == IF a < b THEN a ELSE b

\* the indices of texts[start_idx:end_idx] of batch batch_idx (counted from 0)
batch_texts(n, batch_idx) ==
    (batch_idx * batch_size + 1)..Min(batch_idx * batch_size + batch_size, n)

\* a list as the sequence of its elements in index order
RECURSIVE SeqOfRange(_, _, _)
SeqOfRange(f, lo, hi) == IF lo > hi THEN <<>> ELSE <<f[lo]>> \o SeqOfRange(f, lo + 1, hi)

\* utils generate_embedding(text), lines 22-33: the vector, or None when
\* embed_content raised
generate_embedding(e, i) == IF e.fails[i] THEN None ELSE i

\* asyncio.gather over the batch (lines 53-59): one entry per text, in order
batch_embeddings(e, batch_idx) ==
    LET ix == batch_texts(e.n, batch_idx)
    IN  IF ix = {} THEN <<>>
        ELSE SeqOfRange([i \in ix |-> generate_embedding(e, i)],
                        batch_idx * batch_size + 1,
                        Min(batch_idx * batch_size + batch_size, e.n))

\* [None] * len(batch_texts)
NoneList(k) == [i \in 1..k |-> None]

\* one call of utils.embeddings generate_batch_embeddings (lines 35-45) or
\* of services.embedding_service generate_embeddings, which takes no callback
\* (lines 22-30).  The inputs: the number of texts, which embed_content calls
\* raise, whether a progress callback is given and for which batches it raises
StartEmbed ==
    /\ embed.pc = "idle"
    /\ \E impl \in {"utils", "services"}, n \in 0..MaxTexts, cb \in BOOLEAN :
          \E f \in [1..n -> BOOLEAN], r \in SUBSET (0..(total_batches(n) - 1)) :
              /\ ~cb => r = {}
              /\ impl = "services" => ~cb
              /\ embed' = [IdleEmbed EXCEPT !.impl = impl, !.pc = "loop", !.n = n,
                                            !.fails = f, !.callback = cb, !.cb_raises = r]
    /\ UNCHANGED <<collections, hashSeed, rag, hist, chatdb, tracker, chunker>>
    /\ UNCHANGED <<idxVars, ingVars, chatVars>>

\* utils.embeddings, one iteration of the loop of lines 47-77: the batch's
\* entries are appended (line 60), then the callback is called (lines 64-66);
\* when it raises, the except branch appends one None per text of the batch
\* (lines 74-77).  The sleep of lines 71-72 is the last statement of the try
\* block: it is taken after a batch that is not the last one, and only when
\* the callback has not raised.  embed.sleeps holds the batches after which
\* the delay was taken.
BatchIteration ==
    /\ embed.impl = "utils"
    /\ embed.pc = "loop"
    /\ embed.batch_idx < total_batches(embed.n)
    /\ LET gathered == embed.embeddings \o batch_embeddings(embed, embed.batch_idx)
           k == Cardinality(batch_texts(embed.n, embed.batch_idx))
       IN  embed' = [embed EXCEPT
                !.batch_idx = @ + 1,
                !.embeddings =
                    IF embed.callback /\ embed.batch_idx \in embed.cb_raises
                    THEN gathered \o NoneList(k)
                    ELSE gathered,
                !.sleeps =
                    IF /\ ~(embed.callback /\ embed.batch_idx \in embed.cb_raises)
                       /\ embed.batch_idx < total_batches(embed.n) - 1
                    THEN @ \cup {embed.batch_idx}
                    ELSE @]
    /\ UNCHANGED <<collections, hashSeed, rag, hist, chatdb, tracker, chunker>>
    /\ UNCHANGED <<idxVars, ingVars, chatVars>>

\* utils.embeddings, lines 79-80: the loop is over, the list is returned
BatchReturn ==
    /\ embed.impl = "utils"
    /\ embed.pc = "loop"
    /\ embed.batch_idx = total_batches(embed.n)
    /\ embed' = [embed EXCEPT !.pc = "done", !.outcome = "returned"]
    /\ UNCHANGED <<collections, hashSeed, rag, hist, chatdb, tracker, chunker>>
    /\ UNCHANGED <<idxVars, ingVars, chatVars>>

\* services.embedding_service, one iteration of the loop of lines 33-45:
\* _generate_embeddings_sync embeds the batch text by text and re-raises the
\* first failure (lines 71-96), which generate_embeddings re-raises in turn
\* (lines 50-52); after a batch that is not the last one the delay is taken
\* (lines 44-45)
ServiceIteration ==
    /\ embed.impl = "services"
    /\ embed.pc = "loop"
    /\ embed.batch_idx < total_batches(embed.n)
    /\ embed' =
          IF \E i \in batch_texts(embed.n, embed.batch_idx) : embed.fails[i]
          THEN [embed EXCEPT !.pc = "done", !.outcome = "raised", !.embeddings = <<>>]
          ELSE [embed EXCEPT
                  !.batch_idx = @ + 1,
                  !.embeddings = @ \o batch_embeddings(embed, embed.batch_idx),
                  !.sleeps = IF embed.batch_idx * batch_size + batch_size < embed.n
                             THEN @ \cup {embed.batch_idx}
                             ELSE @]
    /\ UNCHANGED <<collections, hashSeed, rag, hist, chatdb, tracker, chunker>>
    /\ UNCHANGED <<idxVars, ingVars, chatVars>>

\* services.embedding_service, lines 25-26 and 47-48: [] for no texts, else
\* the list once every batch is in
ServiceReturn ==
    /\ embed.impl = "services"
    /\ embed.pc = "loop"
    /\ embed.batch_idx = total_batches(embed.n)
    /\ embed' = [embed EXCEPT !.pc = "done", !.outcome = "returned"]
    /\ UNCHANGED <<collections, hashSeed, rag, hist, chatdb, tracker, chunker>>
    /\ UNCHANGED <<idxVars, ingVars, chatVars>>

\* the caller has its result; the service takes the next call
EmbedRetire ==
    /\ embed.pc = "done"
    /\ embed' = IdleEmbed
    /\ UNCHANGED <<collections, hashSeed, rag, hist, chatdb, tracker, chunker>>
    /\ UNCHANGED <<idxVars, ingVars, chatVars>>

InitEmbed ==
    /\ InitCalls
    /\ InitRuns
    /\ hashSeed = [p \in Procs |-> 0]

NextEmbed ==
    \/ StartEmbed
    \/ BatchIteration
    \/ BatchReturn
    \/ ServiceIteration
    \/ ServiceReturn
    \/ EmbedRetire

SpecEmbed == InitEmbed /\ [][NextEmbed]_vars

-----------------------------------------------------------------------------
\* SpecAnswer: one question answered by ChatService.generate_response behind
\* send_message ("response"), by generate_response_stream behind
\* send_message_stream ("stream"), or by the test server ("test_server").
\* The inputs of a request are what its collaborators do: how many chunks the
\* search returns (found), the text the language model generates (text) and
\* the step that raises, if any (raises).  A text is a sequence of
\* characters; a fixed message is a sequence of one token.  rag.events is
\* the events sent to the client, rag.result the dict generate_response
\* returned, rag.persisted the assistant message committed.  pc:
\*   "retrieve"   before the query embedding and the search
\*   "generate"   generate_response before _generate_with_gemini
\*   "persist"    send_message before it stores the AI response
\*   "metadata"   the metadata event is out, the model is not called yet
\*   "streaming"  the response stream of the model is being iterated
\*   "done"       the request is over

\* the characters of a generated text
GeminiChars == {"x", " "}

\* the texts the language model may generate
GeminiTexts == UNION {[1..n -> GeminiChars] : n \in 0..MaxContent}

\* str.strip() on the characters of the model
RECURSIVE Strip(_)
Strip(t) ==
    IF t = <<>> THEN <<>>
    ELSE IF Head(t) = " " THEN Strip(Tail(t))
    ELSE IF t[Len(t)] = " " THEN Strip(SubSeq(t, 1, Len(t) - 1))
    ELSE t

\* "I cannot find any relevant information in the uploaded document ..."
CannotFindMessage == <<"cannot_find">>

\* "I apologize, but I encountered an error while processing your question ..."
ErrorApology == <<"apology_error">>

\* "I apologize, but I couldn't generate a proper response ..."
NoProperResponse == <<"apology_no_response">>

\* "No relevant information found."
NoRelevantInformation == <<"no_relevant_information">>

\* f"Error occurred: {str(e)}"
ErrorOccurred == <<"error_occurred">>

\* _generate_with_gemini when the model answers `text` (lines 149-154)
generate_with_gemini(text) ==
    IF text # <<>> THEN Strip(text) ELSE NoProperResponse

\* the dict generate_response returns; sources stands for the list of one
\* label per chunk
ResponseDict(response, sources, context_used) ==
    <<[response |-> response, sources |-> sources, context_used |-> context_used]>>

\* one event of generate_response_stream
Event(type, content, sources) == [type |-> type, content |-> content, sources |-> sources]

\* response_parts of the test server, scaled down to MaxContent parts
response_parts == [i \in 1..MaxContent |-> <<"x">>]

\* "".join(parts)
RECURSIVE Join(_)
Join(parts) == IF parts = <<>> THEN <<>> ELSE Head(parts) \o Join(Tail(parts))

\* a request arrives for a completed document
StartAnswer ==
    /\ rag.pc = "idle"
    /\ \/ \E variant \in {"response", "stream"}, found \in 0..MaxChunks,
             text \in GeminiTexts, raises \in {"none", "retrieve", "model"} :
             rag' = [IdleAnswer EXCEPT !.variant = variant, !.pc = "retrieve",
                                          !.found = found, !.text = text,
                                          !.raises = raises]
       \/ rag' = [IdleAnswer EXCEPT !.variant = "test_server", !.pc = "retrieve"]
    /\ UNCHANGED <<collections, hashSeed, embed, hist, chatdb, tracker, chunker>>
    /\ UNCHANGED <<idxVars, ingVars, chatVars>>

\* generate_stream takes a done or an error event (chat.py lines 425-460):
\* the assistant message is committed with `content`, then the event is sent
\* on; when the commit fails the exception ends the response
ForwardTerminal(event, content) ==
    \/ rag' = [rag EXCEPT !.pc = "done", !.persisted = <<content>>,
                                !.events = Append(@, event)]
    \/ rag' = [rag EXCEPT !.pc = "done"]

\* generate_response, lines 55-70 and 102-109: the query embedding and the
\* search; an exception gives the apology, no chunk gives the cannot-find
\* rag, neither calls the model
RetrieveResponse ==
    /\ rag.variant = "response"
    /\ rag.pc = "retrieve"
    /\ rag' =
          IF rag.raises = "retrieve"
          THEN [rag EXCEPT !.pc = "persist",
                              !.result = ResponseDict(ErrorApology, 0, FALSE)]
          ELSE IF rag.found = 0
          THEN [rag EXCEPT !.pc = "persist",
                              !.result = ResponseDict(CannotFindMessage, 0, FALSE)]
          ELSE [rag EXCEPT !.pc = "generate"]
    /\ UNCHANGED <<collections, hashSeed, embed, hist, chatdb, tracker, chunker>>
    /\ UNCHANGED <<idxVars, ingVars, chatVars>>

\* generate_response, lines 72-109: the prompt is built and the model is
\* called once; its failure gives the apology
GenerateResponse ==
    /\ rag.variant = "response"
    /\ rag.pc = "generate"
    /\ rag' =
          IF rag.raises = "model"
          THEN [rag EXCEPT !.pc = "persist", !.llm_calls = @ + 1,
                              !.result = ResponseDict(ErrorApology, 0, FALSE)]
          ELSE [rag EXCEPT !.pc = "persist", !.llm_calls = @ + 1,
                              !.result = ResponseDict(generate_with_gemini(rag.text),
                                                      rag.found, TRUE)]
    /\ UNCHANGED <<collections, hashSeed, embed, hist, chatdb, tracker, chunker>>
    /\ UNCHANGED <<idxVars, ingVars, chatVars>>

\* send_message, lines 290-321: the AI response is stored and returned; a
\* failing commit is rolled back and answered 500, with no response
PersistResponse ==
    /\ rag.variant = "response"
    /\ rag.pc = "persist"
    /\ \/ rag' = [rag EXCEPT !.pc = "done", !.persisted = <<rag.result[1].response>>]
       \/ rag' = [rag EXCEPT !.pc = "done", !.result = <<>>]
    /\ UNCHANGED <<collections, hashSeed, embed, hist, chatdb, tracker, chunker>>
    /\ UNCHANGED <<idxVars, ingVars, chatVars>>

\* generate_response_stream up to its first event (test_streaming.py lines
\* 85-123): an exception or an empty search gives one error event and the
\* generator is over; else the metadata event
RetrieveStream ==
    /\ rag.variant = "stream"
    /\ rag.pc = "retrieve"
    /\ IF rag.raises = "retrieve"
       THEN ForwardTerminal(Event("error", ErrorOccurred, 0), ErrorOccurred)
       ELSE IF rag.found = 0
       THEN ForwardTerminal(Event("error", NoRelevantInformation, 0), NoRelevantInformation)
       ELSE rag' = [rag EXCEPT !.pc = "metadata",
                                     !.events = Append(@, Event("metadata", <<>>, rag.found))]
    /\ UNCHANGED <<collections, hashSeed, embed, hist, chatdb, tracker, chunker>>
    /\ UNCHANGED <<idxVars, ingVars, chatVars>>

\* test_streaming.py line 126: the model is called once, with stream=True
StreamModelCall ==
    /\ rag.variant = "stream"
    /\ rag.pc = "metadata"
    /\ rag' = [rag EXCEPT !.pc = "streaming", !.llm_calls = @ + 1]
    /\ UNCHANGED <<collections, hashSeed, embed, hist, chatdb, tracker, chunker>>
    /\ UNCHANGED <<idxVars, ingVars, chatVars>>

\* the next chunk of the model's text is yielded as a content event;
\* generate_stream appends it to full_response and sends it on
\* (test_streaming.py lines 128-133, chat.py lines 420-423)
StreamPiece ==
    /\ rag.variant = "stream"
    /\ rag.pc = "streaming"
    /\ Len(rag.full_response) < Len(rag.text)
    /\ LET piece == <<rag.text[Len(rag.full_response) + 1]>>
       IN  rag' = [rag EXCEPT !.full_response = @ \o piece,
                                    !.events = Append(@, Event("content", piece, 0))]
    /\ UNCHANGED <<collections, hashSeed, embed, hist, chatdb, tracker, chunker>>
    /\ UNCHANGED <<idxVars, ingVars, chatVars>>

\* the model's text is out: the done event (test_streaming.py lines 135-139);
\* generate_stream stores full_response (chat.py lines 425-444)
StreamDone ==
    /\ rag.variant = "stream"
    /\ rag.pc = "streaming"
    /\ rag.raises # "model"
    /\ Len(rag.full_response) = Len(rag.text)
    /\ ForwardTerminal(Event("done", <<>>, 0), rag.full_response)
    /\ UNCHANGED <<collections, hashSeed, embed, hist, chatdb, tracker, chunker>>
    /\ UNCHANGED <<idxVars, ingVars, chatVars>>

\* the model raises while its stream is iterated: the error event
\* (test_streaming.py lines 141-148); generate_stream stores the event's
\* content (chat.py lines 446-460)
StreamError ==
    /\ rag.variant = "stream"
    /\ rag.pc = "streaming"
    /\ rag.raises = "model"
    /\ ForwardTerminal(Event("error", ErrorOccurred, 0), ErrorOccurred)
    /\ UNCHANGED <<collections, hashSeed, embed, hist, chatdb, tracker, chunker>>
    /\ UNCHANGED <<idxVars, ingVars, chatVars>>

\* test_server.py generate_stream, lines 87-120: the metadata event, one
\* content event per part, the done event, then the assistant message
TestServerStream ==
    /\ rag.variant = "test_server"
    /\ rag.pc \in {"retrieve", "streaming"}
    /\ LET sent == Len(rag.full_response)
       IN  rag' =
              IF rag.pc = "retrieve"
              THEN [rag EXCEPT !.pc = "streaming",
                                  !.events = Append(@, Event("metadata", <<>>, 2))]
              ELSE IF sent < Len(response_parts)
              THEN [rag EXCEPT !.full_response = @ \o response_parts[sent + 1],
                                  !.events = Append(@, Event("content",
                                                             response_parts[sent + 1], 0))]
              ELSE [rag EXCEPT !.pc = "done",
                                  !.events = Append(@, Event("done", <<>>, 0)),
                                  !.persisted = <<Join(response_parts)>>]
    /\ UNCHANGED <<collections, hashSeed, embed, hist, chatdb, tracker, chunker>>
    /\ UNCHANGED <<idxVars, ingVars, chatVars>>

\* the request is over: the next one is taken
AnswerRetire ==
    /\ rag.pc = "done"
    /\ rag' = IdleAnswer
    /\ UNCHANGED <<collections, hashSeed, embed, hist, chatdb, tracker, chunker>>
    /\ UNCHANGED <<idxVars, ingVars, chatVars>>

InitAnswer ==
    /\ InitCalls
    /\ InitRuns
    /\ hashSeed = [p \in Procs |-> 0]

NextAnswer ==
    \/ StartAnswer
    \/ RetrieveResponse
    \/ GenerateResponse
    \/ PersistResponse
    \/ RetrieveStream
    \/ StreamModelCall
    \/ StreamPiece
    \/ StreamDone
    \/ StreamError
    \/ TestServerStream
    \/ AnswerRetire

SpecAnswer == InitAnswer /\ [][NextAnswer]_vars

-----------------------------------------------------------------------------
\* SpecHistory: the conversation history put in the prompt of one question.
\* The messages of the chat are numbered in the order of created_at: the chat
\* holds messages 1..k when the question, message k + 1, arrives.  A list of
\* messages is the sequence of their numbers.  hist.committed is the number
\* of messages a query of the table sees.  pc:
\*   "store"    before the user message is stored
\*   "query"    before the query of the last messages
\*   "reverse"  before history_for_ai is built
\*   "build"    before _build_conversation_history
\*   "done"     the history block is built

\* messages of a chat before the question
MaxMessages == 12

\* .limit(10) of the routes' history query
HistoryLimit == 10

\* chat_history[-6:]
HistoryKeep == 6

Max(a, b) == IF a > b THEN a ELSE b

\* reversed(list)
Reversed(list) == [i \in 1..Len(list) |-> list[Len(list) + 1 - i]]

\* list[-n:]
LastOf(list, n) == SubSeq(list, Max(1, Len(list) - n + 1), Len(list))

\* a question arrives by send_message ("response") or by send_message_stream
\* ("stream") in a chat of k messages
StartHistory ==
    /\ hist.pc = "idle"
    /\ \E route \in {"response", "stream"}, k \in 0..MaxMessages :
          hist' = [IdleHistory EXCEPT !.route = route, !.pc = "store",
                                      !.committed = k, !.question = k + 1]
    /\ UNCHANGED <<collections, hashSeed, embed, rag, chatdb, tracker, chunker>>
    /\ UNCHANGED <<idxVars, ingVars, chatVars>>

\* the user message is stored: send_message adds it to a session that does
\* not flush before a query (chat.py line 267; database.py line 11,
\* autoflush=False); send_message_stream adds and commits it (lines 371-372)
StoreUserMessage ==
    /\ hist.pc = "store"
    /\ hist' = [hist EXCEPT !.pc = "query",
                            !.committed = IF hist.route = "stream" THEN @ + 1 ELSE @]
    /\ UNCHANGED <<collections, hashSeed, embed, rag, chatdb, tracker, chunker>>
    /\ UNCHANGED <<idxVars, ingVars, chatVars>>

\* order_by(created_at.desc()).limit(10).all() (chat.py lines 270-272, 375-377)
QueryHistory ==
    /\ hist.pc = "query"
    /\ hist' = [hist EXCEPT !.pc = "reverse",
                            !.chat_history =
                                LET n == IF hist.committed < HistoryLimit
                                         THEN hist.committed ELSE HistoryLimit
                                IN  [i \in 1..n |-> hist.committed + 1 - i]]
    /\ UNCHANGED <<collections, hashSeed, embed, rag, chatdb, tracker, chunker>>
    /\ UNCHANGED <<idxVars, ingVars, chatVars>>

\* history_for_ai: reversed(chat_history) (chat.py lines 275-280, 380-385)
ReverseHistory ==
    /\ hist.pc = "reverse"
    /\ hist' = [hist EXCEPT !.pc = "build", !.history_for_ai = Reversed(hist.chat_history)]
    /\ UNCHANGED <<collections, hashSeed, embed, rag, chatdb, tracker, chunker>>
    /\ UNCHANGED <<idxVars, ingVars, chatVars>>

\* _build_conversation_history(chat_history), chat_service.py lines 119-130:
\* one line per message of chat_history[-6:], "" for no message
BuildHistory ==
    /\ hist.pc = "build"
    /\ hist' = [hist EXCEPT !.pc = "done",
                            !.block = LastOf(hist.history_for_ai, HistoryKeep)]
    /\ UNCHANGED <<collections, hashSeed, embed, rag, chatdb, tracker, chunker>>
    /\ UNCHANGED <<idxVars, ingVars, chatVars>>

\* the prompt is built: the next question is taken
HistoryRetire ==
    /\ hist.pc = "done"
    /\ hist' = IdleHistory
    /\ UNCHANGED <<collections, hashSeed, embed, rag, chatdb, tracker, chunker>>
    /\ UNCHANGED <<idxVars, ingVars, chatVars>>

InitHistory ==
    /\ InitCalls
    /\ InitRuns
    /\ hashSeed = [p \in Procs |-> 0]

NextHistory ==
    \/ StartHistory
    \/ StoreUserMessage
    \/ QueryHistory
    \/ ReverseHistory
    \/ BuildHistory
    \/ HistoryRetire

SpecHistory == InitHistory /\ [][NextHistory]_vars

-----------------------------------------------------------------------------
\* SpecSessions: the chats of the documents.  chatdb.chats is the chats
\* table, a set of rows (chat_id, document_id); chat ids are uuid4 values,
\* written 1, 2, ... in the order they are drawn (chatdb.minted so far).
\* chatdb.returned[d] is the chat ids answered so far to requests for
\* document d, chatdb.routes[d] the routes that answered them.  Both handlers
\* are coroutines that never await between their query and their commit, so
\* on the server's event loop each runs as one step.

\* chat ids drawn in one behaviour
MaxChats == 3

\* a query that finds no chat, whatever the table holds
NoExistingChats(document_id) == {}

\* db.query(DBChat).filter(DBChat.document_id == document_id,
\* DBChat.user_id == user_id): the rows of the document (its owner is the
\* only user who passes the document check)
ExistingChats(document_id) ==
    {c \in chatdb.chats : c.document_id = document_id}

\* the body shared by create_chat (lines 26-76) and
\* get_or_create_document_chat (lines 85-135): 404 for a document that does
\* not exist; the first chat of the document when there is one; else a chat
\* with a fresh id is added and committed, or the commit fails: rollback, 500
GetOrCreate(route, document_id) ==
    \/ /\ ~Exists(docs, document_id)
       /\ chatdb' = [chatdb EXCEPT !.reply = [route |-> route, code |-> 404, chat_id |-> 0]]
    \/ /\ Exists(docs, document_id)
       /\ ExistingChats(document_id) # {}
       /\ \E c \in ExistingChats(document_id) :
             chatdb' = [chatdb EXCEPT
                 !.reply = [route |-> route, code |-> 200, chat_id |-> c.chat_id],
                 !.returned[document_id] = @ \cup {c.chat_id},
                 !.routes[document_id] = @ \cup {route}]
    \/ /\ Exists(docs, document_id)
       /\ ExistingChats(document_id) = {}
       /\ chatdb.minted < MaxChats
       /\ LET chat_id == chatdb.minted + 1
          IN  \/ chatdb' = [chatdb EXCEPT
                     !.chats = @ \cup {[chat_id |-> chat_id, document_id |-> document_id]},
                     !.minted = chat_id,
                     !.reply = [route |-> route, code |-> 200, chat_id |-> chat_id],
                     !.returned[document_id] = @ \cup {chat_id},
                     !.routes[document_id] = @ \cup {route}]
              \/ chatdb' = [chatdb EXCEPT
                     !.minted = chat_id,
                     !.reply = [route |-> route, code |-> 500, chat_id |-> 0]]

\* POST /api/chat/ (chat.py lines 19-76)
create_chat(document_id) ==
    /\ GetOrCreate("create", document_id)
    /\ UNCHANGED <<collections, hashSeed, embed, rag, hist, tracker, chunker>>
    /\ UNCHANGED <<idxVars, ingVars, chatVars>>

\* GET /api/chat/document/{document_id}/get-or-create (chat.py lines 78-135)
get_or_create_document_chat(document_id) ==
    /\ GetOrCreate("get_or_create", document_id)
    /\ UNCHANGED <<collections, hashSeed, embed, rag, hist, tracker, chunker>>
    /\ UNCHANGED <<idxVars, ingVars, chatVars>>

\* SpecSessions: each document is uploaded or unknown
InitSessions ==
    /\ InitCalls
    /\ hashSeed = [p \in Procs |-> 0]
    /\ docs \in [IngestDocs -> {NoDocument, [status |-> "pending", chunk_count |-> 0]}]
    /\ runs = [r \in RunIds |-> IdleRun]
    /\ tmpFile = [d \in IngestDocs |-> TRUE]
    /\ batch = IdleBatch
    /\ resp = NoResponse
    /\ ended = NoRun
    /\ deliveries = 0
    /\ messages = [d \in IngestDocs |-> <<>>]
    /\ stream = IdleStream
    /\ embed = IdleEmbed
    /\ rag = IdleAnswer
    /\ hist = IdleHistory
    /\ chatdb = NoChats
    /\ tracker = NoProcesses
    /\ chunker = IdleChunker

NextSessions ==
    \/ \E d \in IngestDocs : create_chat(d)
    \/ \E d \in IngestDocs : get_or_create_document_chat(d)

SpecSessions == InitSessions /\ [][NextSessions]_vars

-----------------------------------------------------------------------------
\* SpecTracker: the operations of ProcessTracker.  Each holds the tracker's
\* lock from its first to its last statement, so each is one step.
\* tracker.processes is the map _processes (NoProcess for an id that is not
\* in it), tracker.now the time datetime.utcnow() returns, in hours since the
\* start of a day, and tracker.out the last operation with what it returned.
\* completed_at and error are <<>> and "none" for None.

\* hours the clock advances in one step
TickHours == 13

\* the clock stops here
MaxClock == 39

HoursPerDay == 24

\* max_age_hours: int = 24
DefaultMaxAge == 24

\* ProcessInfo(process_id, document_id): lines 15-23
ProcessInfo ==
    [status |-> "pending", progress_percent |-> 0, completed_at |-> <<>>, error |-> "none"]

Out(op, arg, result) == [op |-> op, arg |-> arg, result |-> result]

\* create_process, lines 32-37
create_process(process_id) ==
    /\ tracker' = [tracker EXCEPT !.processes[process_id] = ProcessInfo,
                                  !.out = Out("create", process_id, "created")]
    /\ UNCHANGED <<collections, hashSeed, embed, rag, hist, chatdb, chunker>>
    /\ UNCHANGED <<idxVars, ingVars, chatVars>>

\* get_process, lines 39-42
get_process(process_id) ==
    /\ tracker' = [tracker EXCEPT !.out =
            Out("get", process_id,
                IF tracker.processes[process_id] = NoProcess THEN "none" ELSE "found")]
    /\ UNCHANGED <<collections, hashSeed, embed, rag, hist, chatdb, chunker>>
    /\ UNCHANGED <<idxVars, ingVars, chatVars>>

\* update_process, lines 44-61: False for an unknown id; else the fields are
\* assigned, and completed_at is assigned the current time when the new
\* status is completed or failed
update_process(process_id, status, progress_percent, error) ==
    /\ tracker' =
          IF tracker.processes[process_id] = NoProcess
          THEN [tracker EXCEPT !.out = Out("update", process_id, "false")]
          ELSE [tracker EXCEPT
                  !.processes[process_id] =
                      [status |-> status, progress_percent |-> progress_percent,
                       completed_at |-> IF status \in {"completed", "failed"}
                                        THEN <<tracker.now>> ELSE @.completed_at,
                       error |-> error],
                  !.out = Out("update", process_id, "true")]
    /\ UNCHANGED <<collections, hashSeed, embed, rag, hist, chatdb, chunker>>
    /\ UNCHANGED <<idxVars, ingVars, chatVars>>

\* delete_process, lines 63-69
delete_process(process_id) ==
    /\ tracker' = [tracker EXCEPT
            !.processes[process_id] = NoProcess,
            !.out = Out("delete", process_id,
                        IF tracker.processes[process_id] = NoProcess THEN "false" ELSE "true")]
    /\ UNCHANGED <<collections, hashSeed, embed, rag, hist, chatdb, chunker>>
    /\ UNCHANGED <<idxVars, ingVars, chatVars>>

\* cleanup_old_processes, lines 71-83: cutoff_time is the current time with
\* its hour field replaced by hour - max_age_hours, which raises ValueError
\* when that is not an hour of the day, 0..23; else the completed and failed
\* records with a completed_at before it (to_delete, lines 76-80) go
cleanup_old_processes(max_age_hours) ==
    /\ LET hour == tracker.now % HoursPerDay
           cutoff_time == tracker.now - hour + (hour - max_age_hours)
           to_delete ==
               {id \in ProcessIds :
                   LET process == tracker.processes[id]
                   IN  /\ process.status \in {"completed", "failed"}
                       /\ process.completed_at # <<>>
                       /\ process.completed_at[1] < cutoff_time}
       IN  tracker' =
              IF (hour - max_age_hours) \notin 0..(HoursPerDay - 1)
              THEN [tracker EXCEPT !.out = Out("cleanup", max_age_hours, "raised")]
              ELSE [tracker EXCEPT
                      !.processes = [id \in ProcessIds |->
                                        IF id \in to_delete THEN NoProcess
                                        ELSE @[id]],
                      !.out = Out("cleanup", max_age_hours, "none")]
    /\ UNCHANGED <<collections, hashSeed, embed, rag, hist, chatdb, chunker>>
    /\ UNCHANGED <<idxVars, ingVars, chatVars>>

\* time passes
Tick ==
    /\ tracker.now + TickHours <= MaxClock
    /\ tracker' = [tracker EXCEPT !.now = @ + TickHours, !.out = Out("none", 0, "none")]
    /\ UNCHANGED <<collections, hashSeed, embed, rag, hist, chatdb, chunker>>
    /\ UNCHANGED <<idxVars, ingVars, chatVars>>

InitTracker ==
    /\ InitCalls
    /\ InitRuns
    /\ hashSeed = [p \in Procs |-> 0]

\* a caller of update_process passes an error text only with the status
\* failed
NextTracker ==
    \/ \E id \in ProcessIds : create_process(id)
    \/ \E id \in ProcessIds : get_process(id)
    \/ \E id \in ProcessIds, status \in {"pending", "processing", "completed", "failed"},
          progress_percent \in {0, 100} :
          \E error \in (IF status = "failed" THEN {"none", "error"} ELSE {"none"}) :
             update_process(id, status, progress_percent, error)
    \/ \E id \in ProcessIds : delete_process(id)
    \/ \E max_age_hours \in {DefaultMaxAge, 1} : cleanup_old_processes(max_age_hours)
    \/ Tick

SpecTracker == InitTracker /\ [][NextTracker]_vars

-----------------------------------------------------------------------------
\* SpecChunker: PDFService.create_text_chunks and _get_overlap_text, each
\* applied to texts drawn from bounded sets.  A text is a sequence of
\* characters: "a" for any character that is neither white space nor a
\* sentence terminator, "." for a terminator (the pattern [.!?] treats the
\* three alike) and " " for white space.  The loop of create_text_chunks is
\* taken one sentence per step.

\* longest text given to create_text_chunks
MaxTextLen == 9

\* longest text given to _get_overlap_text on its own
MaxOverlapTextLen == 7

\* _split_into_sentences joins sentences while the joined length stays below
\* this (200 in the source, line 130); scaled to the length of the texts here
CombineBelow == 5

\* re.split(r'[.!?]+', s) is re_split(s, 1, <<>>, <<>>): the pieces between
\* the runs of terminators; a run at the start or the end leaves an empty
\* piece there
RECURSIVE re_split(_, _, _, _)
re_split(s, i, piece, pieces) ==
    IF i > Len(s) THEN Append(pieces, piece)
    ELSE IF s[i] \in {".", "!", "?"}
         THEN IF i > 1 /\ s[i - 1] \in {".", "!", "?"}
              THEN re_split(s, i + 1, <<>>, pieces)
              ELSE re_split(s, i + 1, <<>>, Append(pieces, piece))
         ELSE re_split(s, i + 1, Append(piece, s[i]), pieces)

\* the combining loop of _split_into_sentences, lines 125-137
RECURSIVE combined_sentences(_, _, _, _)
combined_sentences(sentences, k, current_sentence, combined) ==
    IF k > Len(sentences)
    THEN IF current_sentence # <<>> THEN Append(combined, Strip(current_sentence))
         ELSE combined
    ELSE IF Len(current_sentence) + Len(sentences[k]) < CombineBelow
         THEN combined_sentences(sentences, k + 1,
                                 current_sentence \o sentences[k] \o <<".", " ">>, combined)
         ELSE combined_sentences(sentences, k + 1, sentences[k] \o <<".", " ">>,
                                 IF current_sentence # <<>>
                                 THEN Append(combined, Strip(current_sentence))
                                 ELSE combined)

\* _split_into_sentences, lines 117-140: the pieces are stripped, the empty
\* ones dropped (line 123), and the rest combined
split_into_sentences(text) ==
    LET parts == re_split(text, 1, <<>>, <<>>)
        sentences == SelectSeq([k \in 1..Len(parts) |-> Strip(parts[k])],
                               LAMBDA part : part # <<>>)
    IN  combined_sentences(sentences, 1, <<>>, <<>>)

\* sep.join(parts)
RECURSIVE JoinWith(_, _)
JoinWith(sep, parts) ==
    IF parts = <<>> THEN <<>>
    ELSE IF Len(parts) = 1 THEN parts[1]
    ELSE parts[1] \o sep \o JoinWith(sep, Tail(parts))

\* _get_overlap_text, lines 142-157; text[-overlap_size:] is the last
\* overlap_size characters, and the whole text for text[-0:]
get_overlap_text(text, overlap_size) ==
    IF Len(text) <= overlap_size THEN text
    ELSE LET overlap_text ==
                 IF overlap_size = 0 THEN text
                 ELSE SubSeq(text, Len(text) - overlap_size + 1, Len(text))
             sentences == re_split(overlap_text, 1, <<>>, <<>>)
         IN  IF Len(sentences) > 1
             THEN Strip(JoinWith(<<".", " ">>, Tail(sentences)))
             ELSE overlap_text

\* an entry of chunks, lines 80-85 and 102-107
Chunk(current_chunk, chunk_index, overlap) ==
    [text |-> Strip(current_chunk), size |-> Len(current_chunk),
     chunk_index |-> chunk_index, overlap |-> overlap]

\* create_text_chunks, lines 63-72: ValueError for a text that is empty
\* after strip(), else the sentences and an empty current chunk
StartChunks(text, chunk_size, chunk_overlap) ==
    /\ chunker.pc = "idle"
    /\ chunker' =
          IF Strip(text) = <<>>
          THEN [IdleChunker EXCEPT !.pc = "raised", !.text = text,
                                   !.chunk_size = chunk_size, !.chunk_overlap = chunk_overlap]
          ELSE [IdleChunker EXCEPT !.pc = "loop", !.text = text,
                                   !.chunk_size = chunk_size, !.chunk_overlap = chunk_overlap,
                                   !.sentences = split_into_sentences(text), !.next = 1]
    /\ UNCHANGED <<collections, hashSeed, embed, rag, hist, chatdb, tracker>>
    /\ UNCHANGED <<idxVars, ingVars, chatVars>>

\* one pass of the loop over the sentences, lines 74-98
ChunkIteration ==
    /\ chunker.pc = "loop"
    /\ chunker.next <= Len(chunker.sentences)
    /\ LET sentence == chunker.sentences[chunker.next]
           sentence_size == Len(sentence)
           overlap_text == get_overlap_text(chunker.current_chunk, chunker.chunk_overlap)
       IN  chunker' =
              IF /\ chunker.current_size + sentence_size > chunker.chunk_size
                 /\ chunker.current_chunk # <<>>
              THEN [chunker EXCEPT
                      !.chunks = Append(@, Chunk(chunker.current_chunk, chunker.chunk_index,
                                                 overlap_text)),
                      !.current_chunk = overlap_text \o <<" ">> \o sentence,
                      !.current_size = Len(overlap_text \o <<" ">> \o sentence),
                      !.chunk_index = @ + 1,
                      !.next = @ + 1]
              ELSE [chunker EXCEPT
                      !.current_chunk = IF @ # <<>> THEN @ \o <<" ">> \o sentence
                                        ELSE sentence,
                      !.current_size = @ + sentence_size,
                      !.next = @ + 1]
    /\ UNCHANGED <<collections, hashSeed, embed, rag, hist, chatdb, tracker>>
    /\ UNCHANGED <<idxVars, ingVars, chatVars>>

\* after the loop, lines 100-110: the last chunk, and the list is returned
ChunkLast ==
    /\ chunker.pc = "loop"
    /\ chunker.next > Len(chunker.sentences)
    /\ chunker' = [chunker EXCEPT
            !.pc = "returned",
            !.chunks = IF Strip(chunker.current_chunk) # <<>>
                       THEN Append(@, Chunk(chunker.current_chunk, chunker.chunk_index, <<>>))
                       ELSE @]
    /\ UNCHANGED <<collections, hashSeed, embed, rag, hist, chatdb, tracker>>
    /\ UNCHANGED <<idxVars, ingVars, chatVars>>

\* a call of _get_overlap_text on its own
OverlapCall(text, overlap_size) ==
    /\ chunker.pc = "idle"
    /\ chunker' = [IdleChunker EXCEPT !.pc = "overlap_returned", !.text = text,
                                      !.chunk_overlap = overlap_size,
                                      !.result = get_overlap_text(text, overlap_size)]
    /\ UNCHANGED <<collections, hashSeed, embed, rag, hist, chatdb, tracker>>
    /\ UNCHANGED <<idxVars, ingVars, chatVars>>

\* the caller has the result; the next call starts from nothing
ChunkerRetire ==
    /\ chunker.pc \in {"raised", "returned", "overlap_returned"}
    /\ chunker' = IdleChunker
    /\ UNCHANGED <<collections, hashSeed, embed, rag, hist, chatdb, tracker>>
    /\ UNCHANGED <<idxVars, ingVars, chatVars>>

InitChunker ==
    /\ InitCalls
    /\ InitRuns
    /\ hashSeed = [p \in Procs |-> 0]

\* create_text_chunks is given the texts over "a" and "." up to MaxTextLen
\* with two (chunk_size, chunk_overlap) pairs; _get_overlap_text the texts
\* over the three characters up to MaxOverlapTextLen
NextChunker ==
    \/ \E text \in UNION {[1..k -> {"a", "."}] : k \in 1..MaxTextLen},
          setting \in {<<8, 4>>, <<10, 7>>} :
          StartChunks(text, setting[1], setting[2])
    \/ ChunkIteration
    \/ ChunkLast
    \/ \E text \in UNION {[1..k -> {"a", ".", " "}] : k \in 1..MaxOverlapTextLen},
          overlap_size \in 1..MaxOverlapTextLen :
          OverlapCall(text, overlap_size)
    \/ ChunkerRetire

SpecChunker == InitChunker /\ [][NextChunker]_vars

----------------------------------------------------------------------------
(* Claims about the vector index                                           *)

\* C1: a search for document A never returns a point whose payload
\* document_id is another document B, whatever store_document_chunks calls
\* came before (stated as the claim states it; SpecIndex refutes it)
C1_SearchIsolation ==
    \A p \in Procs :
        (calls[p].op = "search" /\ calls[p].outcome = "returned")
            => \A pt \in calls[p].result : pt.document_id = calls[p].doc

\* C9: the point id is a function of (document_id, chunk_index) alone, so a
\* store_document_chunks call for a document whose collection already holds a
\* point for each of the call's chunk indices leaves the number of points of
\* the collection unchanged (stated as the claim states it; SpecIndex refutes it)
C9_RestoreKeepsSize ==
    [][\A p \in Procs :
        LET c == calls[p]
            name == get_document_collection_name(c.doc)
        IN  (/\ c.pc = "upsert"
             /\ calls'[p].outcome = "returned"
             /\ name \in DOMAIN collections
             /\ \A n \in PointsOf(p, c.doc, c.emb) :
                   \E q \in collections[name] :
                       q.document_id = c.doc /\ q.chunk_index = n.chunk_index)
            => Cardinality(collections'[name]) = Cardinality(collections[name])]_vars

\* C10: a search_similar_chunks call for a document whose collection does not
\* exist or holds no points returns the empty list and raises no error
\* (stated as the claim states it; SpecIndex refutes it)
C10_EmptySearchReturnsEmpty ==
    \A p \in Procs :
        LET c == calls[p]
            name == get_document_collection_name(c.doc)
        IN  (/\ c.op = "search"
             /\ c.pc = "done"
             /\ (name \notin DOMAIN collections \/ collections[name] = {}))
            => (c.outcome = "returned" /\ c.result = {})

----------------------------------------------------------------------------
(* Claims about ingestion                                                  *)

\* C2: at any time at most one ingestion run of a document is active (has
\* begun and has not ended), whatever requests are interleaved (stated as
\* the claim states it; SpecIngest refutes it)
C2_AtMostOneActiveRun ==
    \A d \in IngestDocs : Cardinality(ActiveRuns(d)) <= 1

\* C4: a document's processing_status only moves pending -> processing ->
\* completed or failed, and failed -> processing; a completed document never
\* becomes processing or failed (stated as the claim states it; SpecIngest
\* refutes it).  The creation and the deletion of the record are not moves.
C4_StatusMonotonic ==
    [][\A d \in IngestDocs :
        LET from == docs[d].status
            to == docs'[d].status
        IN  (from # to /\ from # "absent" /\ to # "deleted")
                => <<from, to>> \in {<<"pending", "processing">>,
                                     <<"processing", "completed">>,
                                     <<"processing", "failed">>,
                                     <<"failed", "processing">>}]_vars

C6_NeverLeftProcessing ==
    (ended.kind # "none" /\ ended.step \notin {"not_found", "begin_commit"})
        => docs[ended.doc].status \in {"completed", "failed", "deleted"}

\* C6, amended: once a run that has set the status to processing has ended,
\* the document is completed or failed (or its record is deleted), unless
\* the write of the failed status itself failed
C6_RunEndsTerminal ==
    (/\ ended.kind # "none"
     /\ ended.step \notin {"not_found", "begin_commit"}
     /\ ended.write # "failed")
        => docs[ended.doc].status \in {"completed", "failed", "deleted"}

\* C6 witness: a run has just ended on a failure of generate_embeddings and
\* has written the failed status
C6_Witness ==
    /\ ended.step = "embed"
    /\ ended.write = "ok"
    /\ docs[ended.doc].status = "failed"

\* C7, as the claim states it: a run whose download, extract, chunk, embed or
\* upsert step fails sets the status to failed (when that write succeeds)
\* and raises the original error to its caller (SpecIngest refutes it)
C7_FailureReraises ==
    ended.step \in {"download", "extract", "chunk", "embed", "upsert"}
        => /\ ended.outcome = "raised"
           /\ ended.error = ended.step
           /\ ended.write = "ok" => docs[ended.doc].status = "failed"

\* C7, amended: a run in which a step fails sets the status to failed (when
\* that write succeeds) and reports the error of the step to its caller,
\* also when the write of the failed status fails: pdf_processing_task raises
\* it, DocumentProcessor.process_document returns it in a failure result
C7_FailureReportsOriginal ==
    ended.step # "none"
        => /\ ended.outcome = IF ended.kind = "celery" THEN "raised" ELSE "returned_failure"
           /\ ended.error = ended.step
           /\ ended.write = "ok" => docs[ended.doc].status = "failed"

\* C7 witness: the upsert step of a run has failed, the write of the failed
\* status has failed too, and the run has ended
C7_Witness ==
    /\ ended.step = "upsert"
    /\ ended.write = "failed"
    /\ docs[ended.doc].status = "processing"

\* C8: a run invoked for a document whose earlier run completed leaves the
\* document completed, with the chunk_count and the points the earlier run
\* left (stated as the claim states it; SpecCelery refutes it)
C8_RerunLeavesSame ==
    ended.rerun
        => /\ docs[ended.doc].status = "completed"
           /\ docs[ended.doc].chunk_count = ended.begun_count
           /\ PointsIn(ended.doc) = ended.begun_points

----------------------------------------------------------------------------
(* Claims about the chat endpoint                                          *)

\* C3: for every user turn accepted by the streaming endpoint exactly one
\* assistant turn is persisted in the chat, however the response ends, and
\* it is persisted once, after the last content event (stated as the claim
\* states it; SpecChat refutes it)
C3_OneAssistantTurnPerUserTurn ==
    stream.pc = "ended"
        => /\ CountRole(messages[stream.doc], "assistant")
                 = CountRole(messages[stream.doc], "user")
           /\ CountRole(stream.log, "persist") = 1
           /\ stream.log[Len(stream.log)] = "persist"

\* C11: a store_document_chunks call whose embeddings are all None fails, with
\* the no-valid-embeddings error unless the index itself has failed, and no
\* step of the call changes the vector store (stated as the claim states it;
\* SpecIndex refutes it)
C11_AllNoneStoreIsAtomic ==
    [][\A p \in Procs :
        LET c == calls[p]
        IN  (/\ c.op = "store"
             /\ c.pc # "done"
             /\ Len(c.emb) > 0
             /\ \A i \in 1..Len(c.emb) : ~c.emb[i]
             /\ calls'[p] # c)
            => /\ collections' = collections
               /\ calls'[p].pc = "done" =>
                     (calls'[p].outcome = "raised"
                      /\ calls'[p].error \in {"no_valid_embeddings", "index_unavailable",
                                              "already_exists"})]_vars


\* C12: of the concurrent calls that await ensure_document_collection for one
\* document while its collection is absent, none ends on the index refusing to
\* create a collection that exists already (stated as the claim states it;
\* SpecIndex refutes it)
C12_ConcurrentEnsureSucceeds ==
    \A p \in Procs : calls[p].error # "already_exists"


-----------------------------------------------------------------------------
(* Claims about the batch embedding operations                             *)

\* C13: the list a batch embedding call returns holds exactly one entry per
\* input text, whatever the embed_content calls and the progress callback did,
\* and is empty for no texts (stated as the claim states it; SpecEmbed refutes
\* it)
C13_OneEntryPerText ==
    (embed.pc = "done" /\ embed.outcome = "returned")
        => Len(embed.embeddings) = embed.n


\* C14: in the list a batch embedding call returns, the entry at the position
\* of each input text is None when the text's embed_content call failed, and
\* the text's own vector when neither that call nor the text's batch failed:
\* a failure in one batch changes no entry of another batch (stated as the
\* claim states it; SpecEmbed refutes it)
C14_NoneExactlyAtFailures ==
    (embed.pc = "done" /\ embed.outcome = "returned")
        => \A i \in 1..embed.n :
              /\ i <= Len(embed.embeddings)
              /\ embed.fails[i] => embed.embeddings[i] = None
              /\ (~embed.fails[i] /\ ((i - 1) \div batch_size) \notin embed.cb_raises)
                    => embed.embeddings[i] = i


-----------------------------------------------------------------------------
(* Claims about the completion of a run                                    *)

\* C15: the step in which a run marks its document completed writes, as
\* chunk_count, the number of the document's chunks whose embedding is not
\* None, and the index holds a point of the run for each of them
C15_ChunkCountIsStoredCount ==
    [][\A r \in RunIds :
          LET run == runs[r]
              d == run.doc
              embeddings == generate_embeddings(ChunkCount(d))
          IN  (/\ run.pc = "completing"
               /\ runs'[r] # run
               /\ ended'.outcome = "returned")
              => /\ docs'[d].status = "completed"
                 /\ docs'[d].chunk_count =
                       Cardinality({i \in 1..Len(embeddings) : embeddings[i]})
                 /\ Cardinality(PointsOf(run.proc, d, embeddings) \cap PointsIn(d))
                       = docs'[d].chunk_count]_vars

\* a run has just completed the document of MaxChunks chunks
C15_Witness ==
    /\ ended.outcome = "returned"
    /\ ended.doc = DocIdSeq[2]
    /\ docs[ended.doc] = Completed(MaxChunks)


-----------------------------------------------------------------------------
(* Claims about the answers                                                *)

\* C16: a request whose search returns no chunk, and which is answered, never
\* calls the language model and is answered the fixed cannot-find message with
\* no sources: as the returned dict with context_used false by send_message,
\* as the assistant message of the stream by send_message_stream (stated as
\* the claim states it; SpecAnswer refutes it)
C16_NoChunksAnswer ==
    (/\ rag.pc = "done"
     /\ rag.variant \in {"response", "stream"}
     /\ rag.found = 0
     /\ rag.raises = "none")
    => /\ rag.llm_calls = 0
       /\ rag.result # <<>> => rag.result = ResponseDict(CannotFindMessage, 0, FALSE)
       /\ rag.persisted # <<>> => rag.persisted = <<CannotFindMessage>>
       /\ \A i \in 1..Len(rag.events) : rag.events[i].sources = 0


\* C17: at every moment the events a streaming request has sent begin with one
\* metadata event, which only content events follow, but for one done or error
\* event that is the last one (stated as the claim states it; SpecAnswer
\* refutes it)
C17_EventShape ==
    LET ev == rag.events
    IN  ev # <<>> =>
           /\ ev[1].type = "metadata"
           /\ \A i \in 2..Len(ev) :
                 \/ ev[i].type = "content"
                 \/ i = Len(ev) /\ ev[i].type \in {"done", "error"}


\* the content events sent so far, concatenated in emission order
RECURSIVE ContentOf(_)
ContentOf(ev) ==
    IF ev = <<>> THEN <<>>
    ELSE (IF Head(ev).type = "content" THEN Head(ev).content ELSE <<>>) \o ContentOf(Tail(ev))

\* C18: when a stream has ended with the done event, its content events
\* concatenated, and the assistant message stored, are the response text
\* send_message returns and stores for the same chunks and the same text of
\* the language model (stated as the claim states it; SpecAnswer refutes it)
C18_StreamEqualsResponse ==
    (/\ rag.variant = "stream"
     /\ rag.events # <<>>
     /\ rag.events[Len(rag.events)].type = "done")
    => /\ ContentOf(rag.events) = generate_with_gemini(rag.text)
       /\ rag.persisted = <<generate_with_gemini(rag.text)>>

\* C19: the history block of a prompt holds the messages of the chat that
\* precede the question, the 6 most recent of them when there are more, oldest
\* first (stated as the claim states it; SpecHistory refutes it)
C19_HistoryBlock ==
    hist.pc = "done"
        => LET k == hist.question - 1
           IN  hist.block = [i \in 1..(IF k < HistoryKeep THEN k ELSE HistoryKeep) |->
                                Max(0, k - HistoryKeep) + i]

-----------------------------------------------------------------------------
(* Claims about the chats                                                  *)

\* C20: whatever create_chat and get_or_create_document_chat requests have
\* been answered, no document has two chats and all the requests answered for
\* one document have returned one and the same chat_id
C20_OneChatPerDocument ==
    \A d \in IngestDocs :
        /\ Cardinality({c \in chatdb.chats : c.document_id = d}) <= 1
        /\ Cardinality(chatdb.returned[d]) <= 1

\* both routes have answered for one document, after a commit had failed
C20_Witness ==
    \E d \in IngestDocs :
        /\ chatdb.routes[d] = {"create", "get_or_create"}
        /\ chatdb.returned[d] # {}
        /\ chatdb.minted > 1

-----------------------------------------------------------------------------
(* Claims about the process tracker                                        *)

\* C21: no step changes the status of a process record that is completed or
\* failed and stays in the map; a create_process that puts a new record under
\* the id is left aside (stated as the claim states it; SpecTracker refutes
\* it)
C21_TerminalIsFinal ==
    [][\A id \in ProcessIds :
          (/\ tracker.processes[id].status \in {"completed", "failed"}
           /\ tracker'.processes[id] # NoProcess
           /\ tracker'.out.op # "create")
          => tracker'.processes[id].status = tracker.processes[id].status]_vars

\* C22: after every step, a record has a completed_at exactly when it is
\* completed or failed, and only a failed record has an error; and a step
\* other than a create_process keeps the completed_at of a record that has
\* one and stays in the map (stated as the claim states it; SpecTracker
\* refutes it)
C22_CompletedAtSetOnce ==
    [][\A id \in ProcessIds :
          LET old == tracker.processes[id]
              new == tracker'.processes[id]
          IN  /\ new.status \in {"pending", "processing"} => new.completed_at = <<>>
              /\ new.status \in {"completed", "failed"} => new.completed_at # <<>>
              /\ new.error # "none" => new.status = "failed"
              /\ (old.completed_at # <<>> /\ new # NoProcess /\ tracker'.out.op # "create")
                    => new.completed_at = old.completed_at]_vars

\* C24: a step of cleanup_old_processes with the default retention removes
\* the completed and failed records whose completed_at is more than 24 hours
\* before the current time, and leaves every other record as it is (stated as
\* the claim states it; SpecTracker refutes it)
C24_CleanupRemovesOld ==
    [][(tracker'.out.op = "cleanup" /\ tracker'.out.arg = DefaultMaxAge)
          => \A id \in ProcessIds :
                tracker'.processes[id] =
                    IF /\ tracker.processes[id].status \in {"completed", "failed"}
                       /\ tracker.processes[id].completed_at # <<>>
                       /\ tracker.processes[id].completed_at[1] < tracker.now - DefaultMaxAge
                    THEN NoProcess
                    ELSE tracker.processes[id]]_vars

\* C23: while an ingestion run that has begun is under way, the tracker
\* holds a process record, which is what a status query needs to answer with
\* a status instead of "Process not found" (stated as the claim states it;
\* SpecIngest refutes it)
C23_RunHasProcessRecord ==
    (\E r \in RunIds : runs[r].kind # "none" /\ runs[r].pc # "scheduled")
        => \E id \in ProcessIds : tracker.processes[id] # NoProcess

-----------------------------------------------------------------------------
(* Claims about the upload route                                           *)

\* C30: when upload_pdf has answered, either the answer is the success
\* response, the Document record is pending and a processing run for it is
\* scheduled, or the answer is an error and no Document record of the upload
\* remains (stated as the claim states it; SpecIngest refutes it)
C30_UploadAllOrNothing ==
    resp.route = "upload" =>
        \/ /\ resp.code = 200
           /\ docs[resp.doc].status = "pending"
           /\ \E r \in RunIds : runs[r].kind = "processor" /\ runs[r].doc = resp.doc
        \/ /\ resp.code # 200
           /\ ~Exists(docs, resp.doc)

-----------------------------------------------------------------------------
(* Claims about the text chunker                                           *)

\* C25: in the list create_text_chunks returns, every chunk's text is at
\* most chunk_size long unless it is one sentence on its own that is longer
\* than chunk_size, and the chunk_index values are 0, 1, ..., n-1 in order
\* (stated as the claim states it; SpecChunker refutes it)
C25_ChunkLengthBound ==
    chunker.pc = "returned" =>
        \A k \in 1..Len(chunker.chunks) :
            /\ chunker.chunks[k].chunk_index = k - 1
            /\ \/ Len(chunker.chunks[k].text) <= chunker.chunk_size
               \/ \E j \in 1..Len(chunker.sentences) :
                     chunker.chunks[k].text = chunker.sentences[j]

\* C26: in the list create_text_chunks returns, the overlap text of each
\* chunk but the last is a suffix of that chunk's text, and the next chunk's
\* text begins with it (stated as the claim states it; SpecChunker refutes
\* it)
C26_OverlapIsSharedText ==
    LET IsSuffix(part, text) ==
            /\ Len(part) <= Len(text)
            /\ SubSeq(text, Len(text) - Len(part) + 1, Len(text)) = part
        IsPrefix(part, text) ==
            /\ Len(part) <= Len(text)
            /\ SubSeq(text, 1, Len(part)) = part
    IN  chunker.pc = "returned" =>
            \A k \in 1..(Len(chunker.chunks) - 1) :
                /\ IsSuffix(chunker.chunks[k].overlap, chunker.chunks[k].text)
                /\ IsPrefix(chunker.chunks[k].overlap, chunker.chunks[k + 1].text)

\* C29: _get_overlap_text(text, overlap_size) returns at most overlap_size
\* characters (stated as the claim states it; SpecChunker refutes it)
C29_OverlapAtMostSize ==
    chunker.pc = "overlap_returned" => Len(chunker.result) <= chunker.chunk_overlap

-----------------------------------------------------------------------------
(* Claims about the pacing of the embedding batches                        *)

\* C27: in a batch embedding call, whenever a batch after the first has been
\* sent, the inter-batch delay was taken after each batch before it (stated
\* as the claim states it; SpecEmbed refutes it)
C27_DelayBetweenBatches ==
    \A b \in 0..(embed.batch_idx - 2) : b \in embed.sleeps

-----------------------------------------------------------------------------
(* Claims about the operations that read the vector store                  *)

\* C28: a step of a search_similar_chunks call or of a collection_exists
\* call changes neither the set of collections nor the points of any
\* collection (stated as the claim states it; SpecIndex refutes it)
C28_ReadOnlyOperations ==
    [][\A p \in Procs :
          (calls'[p] # calls[p] /\ calls'[p].op \in {"search", "exists"})
              => collections' = collections]_vars

====
